---- MODULE Spec2Model ----
(***************************************************************************)
(* A model of the nautilus_trader data clients.                            *)
(*                                                                         *)
(*   LiveDataClient      src/unnamed/part_000                              *)
(*   BacktestDataClient  src/nautilus_trader/backtest/data.pyx             *)
(*                                                                         *)
(* The live client is driven by one caller thread (subscribe, unsubscribe, *)
(* reset, request) and by the background delivery path of the subscriber   *)
(* workers.  A method of the caller thread is a list of statements that    *)
(* are executed one per step, so that the delivery path can interleave     *)
(* between any two of them.  The backtest client is single threaded: each  *)
(* of its methods is one step.                                             *)
(*                                                                         *)
(* The base class DataClient (nautilus_trader.common.data), the ObjectCache*)
(* the channel workers and the TestClock are not part of the sources; the  *)
(* definitions that stand for them follow the written specification.       *)
(***************************************************************************)
EXTENDS Integers, Sequences, FiniteSets, TLC

VARIABLES
    tick_handlers,        \* DataClient._tick_handlers: Symbol -> list of handlers
    bar_handlers,         \* DataClient._bar_handlers: BarType -> list of handlers
    instrument_handlers,  \* DataClient._instrument_handlers: Symbol -> list of handlers
    bar_aggregators,      \* DataClient._bar_aggregators: BarType -> aggregator
    instruments,          \* DataClient._instruments: Symbol -> Instrument
    cached_symbols,       \* LiveDataClient._cached_symbols (keys of the cache)
    cached_bar_types,     \* LiveDataClient._cached_bar_types (keys of the cache)
    sub_topics,           \* per subscriber worker: the topics now subscribed
    sub_calls,            \* per subscriber worker: the topics passed to subscribe so far
    worker_state,         \* per channel worker: whether it exists and is connected
    inflight,             \* published messages not yet received by the delivery path
    deliv,                \* what the delivery path did with the last message, until the next is published
    caller,               \* the caller thread: the call in progress and its outcome
    data_providers,       \* BacktestDataClient.data_providers: Symbol -> ticks
    ticks,                \* BacktestDataClient.ticks
    min_timestamp,        \* BacktestDataClient.min_timestamp
    max_timestamp,        \* BacktestDataClient.max_timestamp
    clock_time,           \* TestClock: the current time
    timers                \* TestClock: the pending timers

registry == <<tick_handlers, bar_handlers, instrument_handlers, bar_aggregators>>
caches == <<cached_symbols, cached_bar_types>>
workers == <<sub_topics, sub_calls, worker_state>>
backtest == <<data_providers, ticks, min_timestamp, max_timestamp, clock_time, timers>>
vars == <<registry, instruments, caches, workers, inflight, deliv, caller, backtest>>

----------------------------------------------------------------------------
(* Bounds of the model *)

\* the published messages that can be in flight at once
MaxInflight == 1
\* the handlers registered when a subscribe call starts
MaxHandlers == 2
\* the topics subscribed in a run before a subscribe call adds one
MaxTopics == 1

----------------------------------------------------------------------------
(* Value types: Symbol, BarSpecification, BarType and their string forms.  *)
(* A string is a sequence of tokens, so that to_string and from_string are *)
(* a formatting and a parsing and not the identity.                        *)

AUDUSD == [code |-> "AUDUSD", venue |-> "FXCM"]
GBPUSD == [code |-> "GBPUSD", venue |-> "FXCM"]
Symbols == {AUDUSD, GBPUSD}
NoneSymbol == [code |-> "None", venue |-> "None"]

TickSpec == [step |-> 2, structure |-> "TICK", price_type |-> "BID"]
MinuteSpec == [step |-> 1, structure |-> "MINUTE", price_type |-> "BID"]
BarSpecs == {TickSpec, MinuteSpec}
BarTypes == {[symbol |-> AUDUSD, specification |-> sp] : sp \in BarSpecs}
NoneBarType == [symbol |-> NoneSymbol,
                specification |-> [step |-> 0, structure |-> "None", price_type |-> "None"]]

Digits == <<"1", "2", "3">>

SymbolToString(s) == <<s.code, ".", s.venue>>
SymbolFromString(str) == [code |-> str[1], venue |-> str[3]]
BarSpecToString(sp) == <<Digits[sp.step], "-", sp.structure, "[", sp.price_type, "]">>
BarSpecFromString(str) ==
    [step |-> CHOOSE n \in 1..Len(Digits) : Digits[n] = str[1],
     structure |-> str[3], price_type |-> str[5]]
BarTypeToString(bt) == SymbolToString(bt.symbol) \o <<"-">> \o BarSpecToString(bt.specification)
BarTypeFromString(str) ==
    [symbol |-> SymbolFromString(SubSeq(str, 1, 3)),
     specification |-> BarSpecFromString(SubSeq(str, 5, Len(str)))]

\* callables handed in by strategies, and a value that is not callable
Handlers == {<<"h1">>, <<"h2">>}
NotCallable == <<"not_callable">>
AnyCallable(h) == TRUE
Callable(h) == h # NotCallable
\* the bound method aggregator.update of the aggregator of a bar type
AggregatorUpdate(bt) == <<"aggregator.update">> \o BarTypeToString(bt)
IsAggregatorUpdate(h) == h[1] = "aggregator.update"
AggregatorOf(h) == BarTypeFromString(SubSeq(h, 2, Len(h)))

Kinds == {"tick", "bar", "inst"}

----------------------------------------------------------------------------
(* Sequences *)

Range(seq) == {seq[i] : i \in 1..Len(seq)}
Contains(seq, x) == \E i \in 1..Len(seq) : seq[i] = x
Without(seq, x) == SelectSeq(seq, LAMBDA y : y # x)
Count(seq, x) == Cardinality({i \in 1..Len(seq) : seq[i] = x})

----------------------------------------------------------------------------
(* The handler registry of the base class                                  *)

\* _add_*_handler: a handler is appended to the list of its key once
AddHandler(reg, key, handler) ==
    IF Contains(reg[key], handler) THEN reg
    ELSE [reg EXCEPT ![key] = Append(@, handler)]

\* _remove_*_handler: the handler leaves the list of its key; an empty list
\* is the absent entry
RemoveHandler(reg, key, handler) == [reg EXCEPT ![key] = Without(@, handler)]

HandlersOf(kind) ==
    CASE kind = "tick" -> tick_handlers
      [] kind = "bar" -> bar_handlers
      [] kind = "inst" -> instrument_handlers

SetHandlers(kind, new) ==
    /\ tick_handlers' = IF kind = "tick" THEN new ELSE tick_handlers
    /\ bar_handlers' = IF kind = "bar" THEN new ELSE bar_handlers
    /\ instrument_handlers' = IF kind = "inst" THEN new ELSE instrument_handlers

NoAggregator == [present |-> FALSE, count |-> 0]
EmptyRegistry ==
    /\ tick_handlers = [s \in Symbols |-> <<>>]
    /\ bar_handlers = [bt \in BarTypes |-> <<>>]
    /\ instrument_handlers = [s \in Symbols |-> <<>>]
    /\ bar_aggregators = [bt \in BarTypes |-> NoAggregator]

\* ObjectCache.get: parse-or-reuse; the cache gains the key if it is absent
CacheGet(cache, key) == cache \union {key}

----------------------------------------------------------------------------
(* The caller thread.  A call in progress holds the statements it still    *)
(* has to execute; a finished call holds its outcome until it returns.     *)

Idle == [op |-> "idle", stage |-> "idle"]

Stmt(do, kind, key, handler) == [do |-> do, kind |-> kind, key |-> key, handler |-> handler]

Running(op, key, handler, todo) ==
    [op |-> op, stage |-> "running", key |-> key, handler |-> handler, todo |-> todo]

\* the outcome of a call: the exception raised to the caller ("none" when it
\* returns normally), the channels it sent a request on, the errors it
\* logged, the callback invocations it made, and the caches and the registry
\* as they were when the call started
Done(op, key, handler, raised, sent, errors, callbacks, pre) ==
    [op |-> op, stage |-> "done", key |-> key, handler |-> handler, raised |-> raised,
     sent |-> sent, errors |-> errors, callbacks |-> callbacks, pre |-> pre]

\* a call that fails its preconditions: nothing is sent, logged or invoked
Raised(op, ex) == Done(op, NoneSymbol, NotCallable, ex, <<>>, 0, <<>>, <<>>)

\* Symbol.to_string() and Symbol.value for a symbol, BarType.to_string() for
\* a bar type: the topic of a key
TopicOf(kind, key) == IF kind = "bar" THEN BarTypeToString(key) ELSE SymbolToString(key)

subscribe_ticks_wire_first(symbol, handler) ==
    <<Stmt("subscribe", "tick", symbol, handler), Stmt("add_handler", "tick", symbol, handler)>>
subscribe_ticks_body(symbol, handler) ==
    <<Stmt("add_handler", "tick", symbol, handler), Stmt("subscribe", "tick", symbol, handler)>>

\* DataClient._self_generate_bars: a new aggregator is subscribed to the
\* tick stream of the symbol, then the handler is added under the bar type
_self_generate_bars(bar_type, handler) ==
    (IF bar_aggregators[bar_type].present THEN <<>>
     ELSE <<Stmt("create_aggregator", "bar", bar_type, handler)>>
          \o subscribe_ticks_body(bar_type.symbol, AggregatorUpdate(bar_type)))
    \o <<Stmt("add_handler", "bar", bar_type, handler)>>

subscribe_bars_always_remote(bar_type, handler) ==
    <<Stmt("add_handler", "bar", bar_type, handler), Stmt("subscribe", "bar", bar_type, handler)>>
subscribe_bars_body(bar_type, handler) ==
    IF bar_type.specification.structure = "TICK"
    THEN _self_generate_bars(bar_type, handler)
    ELSE <<Stmt("add_handler", "bar", bar_type, handler),
           Stmt("subscribe", "bar", bar_type, handler)>>

subscribe_instrument_body(symbol, handler) ==
    <<Stmt("add_handler", "inst", symbol, handler), Stmt("subscribe", "inst", symbol, handler)>>

unsubscribe_ticks_remove_first(symbol, handler) ==
    <<Stmt("remove_handler", "tick", symbol, handler), Stmt("unsubscribe", "tick", symbol, handler)>>
unsubscribe_ticks_body(symbol, handler) ==
    <<Stmt("unsubscribe", "tick", symbol, handler), Stmt("remove_handler", "tick", symbol, handler)>>

unsubscribe_bars_body(bar_type, handler) ==
    <<Stmt("unsubscribe", "bar", bar_type, handler), Stmt("remove_handler", "bar", bar_type, handler)>>

unsubscribe_instrument_body(symbol, handler) ==
    <<Stmt("unsubscribe", "inst", symbol, handler), Stmt("remove_handler", "inst", symbol, handler)>>

reset_keeps_bar_types ==
    <<Stmt("clear_cached_symbols", "tick", NoneSymbol, NotCallable),
      Stmt("_reset", "tick", NoneSymbol, NotCallable)>>
reset_body ==
    <<Stmt("clear_cached_symbols", "tick", NoneSymbol, NotCallable),
      Stmt("clear_cached_bar_types", "bar", NoneSymbol, NotCallable),
      Stmt("_reset", "tick", NoneSymbol, NotCallable)>>

\* the start of a subscribe or unsubscribe call: the preconditions
\* (Condition.not_none, Condition.callable), then the body
Start(op, key, none, handler, body) ==
    /\ caller = Idle
    /\ caller' = IF key = none \/ ~Callable(handler)
                 THEN Done(op, key, handler, "ValueError", <<>>, 0, <<>>, <<>>)
                 ELSE Running(op, key, handler, body)
    /\ UNCHANGED <<registry, instruments, caches, workers, inflight, deliv, backtest>>

\* the strategies handed to register_strategy
Strategies == {[strategy |-> "s1"]}
NoneStrategy == [strategy |-> "None"]

\* LiveDataClient.register_strategy: the precondition (Condition.not_none),
\* then the strategy is given the client
register_strategy(strategy) ==
    /\ caller = Idle
    /\ caller' = IF strategy = NoneStrategy
                 THEN Done("register_strategy", strategy, NotCallable, "ValueError",
                           <<>>, 0, <<>>, <<>>)
                 ELSE Done("register_strategy", strategy, NotCallable, "none", <<>>, 0,
                           <<[handler |-> <<"strategy.register_data_client">>,
                              kind |-> "strategy"]>>, <<>>)
    /\ UNCHANGED <<registry, instruments, caches, workers, inflight, deliv, backtest>>

\* the handlers now registered, and the topics subscribed so far
Registered ==
    LET n(reg, keys) == Cardinality({<<k, i>> \in keys \X (1..3) : i <= Len(reg[k])})
    IN n(tick_handlers, Symbols) + n(bar_handlers, BarTypes) + n(instrument_handlers, Symbols)
Subscribed == Cardinality({<<k, t>> \in Kinds \X UNION {sub_calls[k] : k \in Kinds} :
                              t \in sub_calls[k]})
Room(kind, topic) ==
    /\ Registered < MaxHandlers
    /\ topic \in sub_calls[kind] \/ Subscribed < MaxTopics

subscribe_ticks(symbol, handler) ==
    /\ symbol # NoneSymbol => Room("tick", SymbolToString(symbol))
    /\ Start("subscribe_ticks", symbol, NoneSymbol, handler, subscribe_ticks_body(symbol, handler))
subscribe_bars(bar_type, handler) ==
    /\ bar_type # NoneBarType =>
          IF bar_type.specification.structure = "TICK"
          THEN Room("tick", SymbolToString(bar_type.symbol))
          ELSE Room("bar", BarTypeToString(bar_type))
    /\ Start("subscribe_bars", bar_type, NoneBarType, handler, subscribe_bars_body(bar_type, handler))
subscribe_instrument(symbol, handler) ==
    /\ symbol # NoneSymbol => Room("inst", SymbolToString(symbol))
    /\ Start("subscribe_instrument", symbol, NoneSymbol, handler,
             subscribe_instrument_body(symbol, handler))
unsubscribe_ticks(symbol, handler) ==
    Start("unsubscribe_ticks", symbol, NoneSymbol, handler, unsubscribe_ticks_body(symbol, handler))
unsubscribe_bars(bar_type, handler) ==
    Start("unsubscribe_bars", bar_type, NoneBarType, handler,
          unsubscribe_bars_body(bar_type, handler))
unsubscribe_instrument(symbol, handler) ==
    Start("unsubscribe_instrument", symbol, NoneSymbol, handler,
          unsubscribe_instrument_body(symbol, handler))

reset ==
    /\ caller = Idle
    /\ caller' = Running("reset", NoneSymbol, NotCallable, reset_body)
    /\ UNCHANGED <<registry, instruments, caches, workers, inflight, deliv, backtest>>

\* a message published while a subscription is open is due to its handler;
\* a reset ends every subscription and with it what is due
VoidDue(m) == [m EXCEPT !.due = {}]

\* the caller thread executes the next statement of the call in progress;
\* the call returns with its last statement
CallerStep ==
    /\ caller.stage = "running"
    /\ LET st == Head(caller.todo)
           rest == Tail(caller.todo)
       IN /\ caller' = IF rest = <<>> THEN Idle ELSE [caller EXCEPT !.todo = rest]
          /\ CASE st.do = "add_handler" ->
                    /\ SetHandlers(st.kind, AddHandler(HandlersOf(st.kind), st.key, st.handler))
                    /\ UNCHANGED <<bar_aggregators, caches, workers, inflight, deliv>>
               [] st.do = "remove_handler" ->
                    /\ SetHandlers(st.kind, RemoveHandler(HandlersOf(st.kind), st.key, st.handler))
                    /\ UNCHANGED <<bar_aggregators, caches, workers, inflight, deliv>>
               [] st.do = "subscribe" ->
                    /\ sub_topics' = [sub_topics EXCEPT ![st.kind] = @ \union {TopicOf(st.kind, st.key)}]
                    /\ sub_calls' = [sub_calls EXCEPT ![st.kind] = @ \union {TopicOf(st.kind, st.key)}]
                    /\ UNCHANGED <<registry, caches, worker_state, inflight, deliv>>
               [] st.do = "unsubscribe" ->
                    /\ sub_topics' = [sub_topics EXCEPT ![st.kind] = @ \ {TopicOf(st.kind, st.key)}]
                    /\ sub_calls' = sub_calls
                    /\ UNCHANGED <<registry, caches, worker_state, inflight, deliv>>
               [] st.do = "create_aggregator" ->
                    /\ bar_aggregators' = [bar_aggregators EXCEPT ![st.key] = [present |-> TRUE, count |-> 0]]
                    /\ UNCHANGED <<tick_handlers, bar_handlers, instrument_handlers, caches,
                                   workers, inflight, deliv>>
               [] st.do = "clear_cached_symbols" ->
                    /\ cached_symbols' = {}
                    /\ UNCHANGED <<registry, cached_bar_types, workers, inflight, deliv>>
               [] st.do = "clear_cached_bar_types" ->
                    /\ cached_bar_types' = {}
                    /\ UNCHANGED <<registry, cached_symbols, workers, inflight, deliv>>
               [] st.do = "_reset" ->
                    /\ tick_handlers' = [s \in Symbols |-> <<>>]
                    /\ bar_handlers' = [bt \in BarTypes |-> <<>>]
                    /\ instrument_handlers' = [s \in Symbols |-> <<>>]
                    /\ bar_aggregators' = [bt \in BarTypes |-> NoAggregator]
                    /\ inflight' = [i \in 1..Len(inflight) |-> VoidDue(inflight[i])]
                    /\ deliv' = VoidDue(deliv)
                    /\ UNCHANGED <<caches, workers>>
    /\ UNCHANGED <<instruments, backtest>>

\* the call returns to the caller
Return ==
    /\ caller.stage = "done"
    /\ caller' = Idle
    /\ UNCHANGED <<registry, instruments, caches, workers, inflight, deliv, backtest>>

----------------------------------------------------------------------------
(* The publish/subscribe channels and the background delivery path         *)

\* payloads on the wire and their decoding
TickPayloads == {<<"1.0">>}
BarPayloads == {<<"1.0", "1.1">>}
InstrumentPayload(symbol) == SymbolToString(symbol) \o <<"instrument">>

\* Utf8TickSerializer.deserialize(symbol, message)
TickDeserialize(symbol, message) == [symbol |-> symbol, price |-> message[1]]
\* Utf8BarSerializer.deserialize(message)
BarDeserialize(message) == [open |-> message[1], close |-> message[2]]
\* InstrumentSerializer.deserialize(message)
InstrumentDeserialize(message) == [symbol |-> SymbolFromString(SubSeq(message, 1, 3))]

Topics(kind) == IF kind = "bar" THEN {BarTypeToString(bt) : bt \in BarTypes}
                ELSE {SymbolToString(s) : s \in Symbols}
Payloads(kind) == CASE kind = "tick" -> TickPayloads
                    [] kind = "bar" -> BarPayloads
                    [] kind = "inst" -> {InstrumentPayload(s) : s \in Symbols}

\* the key under which the internal dispatch looks a message up; and the
\* first symbol as the key of every tick and instrument
KeyOfFirstSymbol(kind, topic, message) ==
    IF kind = "bar" THEN BarTypeFromString(topic) ELSE AUDUSD
KeyOf(kind, topic, message) ==
    CASE kind = "tick" -> TickDeserialize(SymbolFromString(topic), message).symbol
      [] kind = "bar" -> BarTypeFromString(topic)
      [] kind = "inst" -> InstrumentDeserialize(message).symbol

\* the calls of the caller thread that change the subscription of a handler
SubscriptionOps == {"subscribe_ticks", "subscribe_bars", "subscribe_instrument",
                    "unsubscribe_ticks", "unsubscribe_bars", "unsubscribe_instrument"}

\* the handlers whose subscription to the ticks of the key is open:
\* subscribe_ticks has returned and neither unsubscribe_ticks nor reset has
\* been called
Due(kind, key) ==
    {h \in (IF kind = "tick" THEN Range(tick_handlers[key]) \cap Handlers ELSE {}) :
        ~(/\ caller.stage = "running"
          /\ \/ caller.op = "reset"
             \/ caller.op \in SubscriptionOps /\ caller.handler = h)}

\* no message delivered yet
NoDelivery == [kind |-> "none", key |-> NoneSymbol, due |-> {}, invoked |-> <<>>,
               window |-> NotCallable]

\* the calls that end a subscription, and the part of such a call before
\* its wire unsubscribe has been issued
UnsubscribeOps == {"unsubscribe_ticks", "unsubscribe_bars", "unsubscribe_instrument"}
WirePending ==
    /\ caller.stage = "running"
    /\ caller.op \in UnsubscribeOps
    /\ \E i \in 1..Len(caller.todo) : caller.todo[i].do = "unsubscribe"

\* the data service publishes a message; the channel carries it when its
\* topic is subscribed.  An instrument is published under its own symbol.
Publish(kind, topic, message) ==
    /\ Len(inflight) < MaxInflight
    /\ topic \in sub_topics[kind]
    /\ kind = "inst" => message = InstrumentPayload(SymbolFromString(topic))
    /\ inflight' = Append(inflight, [kind |-> kind, topic |-> topic, message |-> message,
                                      due |-> Due(kind, KeyOf(kind, topic, message))])
    /\ deliv' = NoDelivery
    /\ UNCHANGED <<registry, instruments, caches, workers, caller, backtest>>

\* TickBarAggregator.update: the aggregator counts the tick and builds a
\* bar when the step of its bar type is reached
AggregatorEmits(bt) ==
    bar_aggregators[bt].present /\ bar_aggregators[bt].count + 1 = bt.specification.step
AggregatorAfterUpdate(bt) ==
    IF ~bar_aggregators[bt].present THEN bar_aggregators[bt]
    ELSE [present |-> TRUE, count |-> (bar_aggregators[bt].count + 1) % bt.specification.step]

\* the invocations made by handing an item to each handler of a list in
\* order; an aggregator that builds a bar hands it to _handle_bar
RECURSIVE Invocations(_, _)
Invocations(handlers, kind) ==
    IF handlers = <<>> THEN <<>>
    ELSE LET h == Head(handlers)
         IN (IF IsAggregatorUpdate(h)
             THEN IF AggregatorEmits(AggregatorOf(h))
                  THEN [i \in 1..Len(bar_handlers[AggregatorOf(h)]) |->
                            [handler |-> bar_handlers[AggregatorOf(h)][i], kind |-> "bar"]]
                  ELSE <<>>
             ELSE <<[handler |-> h, kind |-> kind]>>)
            \o Invocations(Tail(handlers), kind)

\* the background delivery path receives a message: _handle_tick_sub,
\* _handle_bar_sub or _handle_inst_sub decodes it, and _handle_tick,
\* _handle_bar or _handle_instrument invokes every handler of its key
Deliver(i) ==
    /\ i \in 1..Len(inflight)
    /\ \A j \in 1..(i - 1) : inflight[j].kind # inflight[i].kind
    /\ LET m == inflight[i]
           key == KeyOf(m.kind, m.topic, m.message)
           handlers == HandlersOf(m.kind)[key]
       IN /\ inflight' = SubSeq(inflight, 1, i - 1) \o SubSeq(inflight, i + 1, Len(inflight))
          /\ cached_symbols' = IF m.kind = "tick" THEN CacheGet(cached_symbols, m.topic)
                               ELSE cached_symbols
          /\ cached_bar_types' = IF m.kind = "bar" THEN CacheGet(cached_bar_types, m.topic)
                                 ELSE cached_bar_types
          /\ instruments' = IF m.kind = "inst"
                            THEN [instruments EXCEPT ![key] = InstrumentDeserialize(m.message)]
                            ELSE instruments
          /\ bar_aggregators' =
                [bt \in BarTypes |->
                    IF m.kind = "tick" /\ Contains(handlers, AggregatorUpdate(bt))
                    THEN AggregatorAfterUpdate(bt) ELSE bar_aggregators[bt]]
          /\ deliv' = [kind |-> m.kind, key |-> key, due |-> m.due,
                       invoked |-> Invocations(handlers, m.kind),
                       window |-> IF WirePending /\ caller.todo[1].kind = m.kind
                                                 /\ caller.key = key
                                  THEN caller.handler ELSE NotCallable]
    /\ UNCHANGED <<tick_handlers, bar_handlers, instrument_handlers, workers, caller, backtest>>

----------------------------------------------------------------------------
(* The live client: subscriptions and deliveries                           *)

NoInstrument == [symbol |-> NoneSymbol]

\* the six channel workers in the order the constructor creates them, and the
\* workers as the constructor leaves them
WorkerOrder == <<"tick_req", "bar_req", "inst_req", "tick_sub", "bar_sub", "inst_sub">>
Workers == Range(WorkerOrder)
WorkersCreated == worker_state = [w \in Workers |-> "created"]

\* the backtest state is not part of a live client
NoBacktest ==
    /\ data_providers = <<>>
    /\ ticks = <<>>
    /\ min_timestamp = 0
    /\ max_timestamp = 0
    /\ clock_time = 0
    /\ timers = {}

InitLive ==
    /\ EmptyRegistry
    /\ instruments = [s \in Symbols |-> NoInstrument]
    /\ cached_symbols = {}
    /\ cached_bar_types = {}
    /\ sub_topics = [k \in Kinds |-> {}]
    /\ sub_calls = [k \in Kinds |-> {}]
    /\ WorkersCreated
    /\ inflight = <<>>
    /\ deliv = NoDelivery
    /\ caller = Idle
    /\ NoBacktest

NextLive ==
    \/ \E s \in Symbols \union {NoneSymbol}, h \in Handlers \union {NotCallable} :
          \/ subscribe_ticks(s, h)
          \/ unsubscribe_ticks(s, h)
          \/ subscribe_instrument(s, h)
          \/ unsubscribe_instrument(s, h)
    \/ \E bt \in BarTypes \union {NoneBarType}, h \in Handlers \union {NotCallable} :
          \/ subscribe_bars(bt, h)
          \/ unsubscribe_bars(bt, h)
    \/ reset
    \/ \E strategy \in Strategies \union {NoneStrategy} : register_strategy(strategy)
    \/ CallerStep
    \/ Return
    \/ \E k \in Kinds : \E t \in Topics(k), m \in Payloads(k) : Publish(k, t, m)
    \/ \E i \in 1..MaxInflight : Deliver(i)

SpecLive == InitLive /\ [][NextLive]_vars

----------------------------------------------------------------------------
(* Properties of the live client                                           *)

\* the key a topic stands for, and the handlers registered for it
KeyOfTopic(kind, topic) ==
    IF kind = "bar" THEN BarTypeFromString(topic) ELSE SymbolFromString(topic)
HandlersFor(kind, topic) == HandlersOf(kind)[KeyOfTopic(kind, topic)]
Invoked(h) == \E i \in 1..Len(deliv.invoked) : deliv.invoked[i].handler = h

\* C1 (as stated): in every reachable state every wire-subscribed topic has
\* a registered handler.
C1_SubscribedHasHandler ==
    \A k \in Kinds : \A t \in sub_topics[k] : HandlersFor(k, t) # <<>>

\* C1: the wire subscribe of subscribe_ticks, subscribe_bars (non-tick) and
\* subscribe_instrument is issued when the handler of the call is already
\* registered, and a subscribed topic loses its last handler only by reset.
C1_HandlerBeforeWire ==
    [][\A k \in Kinds : \A t \in Topics(k) :
          /\ (t \notin sub_topics[k] /\ t \in sub_topics'[k])
                => Contains(HandlersFor(k, t), caller.todo[1].handler)
          /\ (t \in sub_topics[k] /\ t \in sub_topics'[k]
                /\ HandlersFor(k, t) # <<>> /\ HandlersFor(k, t)' = <<>>)
                => caller.op = "reset"]_vars

\* a message of a subscribed topic has been delivered to its handler
C1_Witness ==
    \E k \in Kinds : \E t \in sub_topics[k] :
        /\ caller = Idle
        /\ deliv.kind = k /\ deliv.key = KeyOfTopic(k, t)
        /\ \E h \in Handlers : Contains(HandlersFor(k, t), h) /\ Invoked(h)

\* C2: until an unsubscribe call has issued its wire unsubscribe the
\* handler registries are unchanged, and a message delivered in that part
\* of the call is dispatched to the handler being unsubscribed.
C2_WireBeforeRemove ==
    [][WirePending =>
          /\ <<tick_handlers, bar_handlers, instrument_handlers>>'
                = <<tick_handlers, bar_handlers, instrument_handlers>>
          /\ (Len(inflight') < Len(inflight) /\ deliv'.kind = caller.todo[1].kind
                /\ deliv'.key = caller.key
                /\ Contains(HandlersOf(deliv'.kind)[caller.key], caller.handler))
                => \E i \in 1..Len(deliv'.invoked) :
                       deliv'.invoked[i].handler = caller.handler]_vars

\* a message was delivered before the wire unsubscribe of the call that
\* unsubscribes its handler, and the handler was invoked
C2_Witness == deliv.window \in Handlers /\ Invoked(deliv.window)

\* C3: every tick published while the subscription of a handler is open
\* is handed to that handler exactly once.
C3_EveryTickDispatched ==
    \A h \in deliv.due : Count(deliv.invoked, [handler |-> h, kind |-> "tick"]) = 1

\* C8: no topic of a tick-structured bar type is ever passed to the bar
\* subscriber; a handler of such a bar type is served by a local
\* aggregator that is registered for the ticks of the symbol.
C8_TickBarsLocal ==
    /\ \A t \in sub_calls["bar"] : BarTypeFromString(t).specification.structure # "TICK"
    /\ \A bt \in BarTypes :
          (bt.specification.structure = "TICK" /\ bar_handlers[bt] # <<>>) =>
              /\ bar_aggregators[bt].present
              /\ Contains(tick_handlers[bt.symbol], AggregatorUpdate(bt))
              /\ SymbolToString(bt.symbol) \in sub_calls["tick"]

\* a handler of a tick-structured bar type has received a bar built locally
C8_Witness ==
    \E bt \in BarTypes :
        /\ bt.specification.structure = "TICK" /\ bar_handlers[bt] # <<>>
        /\ deliv.kind = "tick"
        /\ \E i \in 1..Len(deliv.invoked) : deliv.invoked[i].kind = "bar"

----------------------------------------------------------------------------
(* The request/reply channels of the live client.  A request call blocks   *)
(* the caller thread from its send until the reply of the service.         *)

\* the largest limit of a request, and the most items in a reply
MaxLimit == 1
MaxData == 2

Limits == (-1)..MaxLimit
NoneDate == <<"None">>
Dates == {<<"2020-01-01">>}
Venues == {"FXCM", "IDEALPRO"}

\* str(limit)
LimitToString(limit) ==
    IF limit = 0 THEN <<"0">>
    ELSE IF limit < 0 THEN <<"-", Digits[-limit]>> ELSE <<Digits[limit]>>

\* the sequences over a set of at most n items
SeqsUpTo(S, n) == UNION {[1..k -> S] : k \in 0..n}

\* the replies of the data service
HistoricTicks == {<<"1.0">>, <<"1.1">>}
HistoricBars == {<<"1.0", "1.1">>, <<"1.1", "1.2">>}
NoReply == [type |-> "none"]
Failures == {[type |-> "MessageRejected"], [type |-> "QueryFailure"]}
DataResponse(metadata, data) == [type |-> "DataResponse", metadata |-> metadata, data |-> data]
Replies(op) ==
    Failures \union
    CASE op = "request_ticks" ->
            {DataResponse([symbol |-> SymbolToString(s)], d) :
                s \in Symbols, d \in SeqsUpTo(HistoricTicks, MaxData)}
      [] op = "request_bars" ->
            {DataResponse([symbol |-> SymbolToString(bt.symbol),
                           specification |-> BarSpecToString(bt.specification)], d) :
                bt \in BarTypes, d \in SeqsUpTo(HistoricBars, MaxData)}
      [] OTHER ->
            {DataResponse([venue |-> "FXCM"], d) :
                d \in SeqsUpTo({InstrumentPayload(s) : s \in Symbols}, MaxData)}

\* the request/reply worker of an operation; and one worker used by all
tick_worker_for_all(op) == "tick_req"
ChannelOf(op) == CASE op = "request_ticks" -> "tick_req"
                   [] op = "request_bars" -> "bar_req"
                   [] OTHER -> "inst_req"

\* a request call: its arguments, the requests it has sent, and the caches
\* and the registry as they were when it started
Request(op, key, from_date, to_date, limit, callback) ==
    [op |-> op, key |-> key, from_date |-> from_date, to_date |-> to_date, limit |-> limit,
     handler |-> callback, pre |-> <<caches, registry>>]

\* the call waits for the reply to the request it has sent
Waiting(call, query) ==
    [stage |-> "waiting", sent |-> <<[channel |-> ChannelOf(call.op), query |-> query]>>] @@ call

\* the outcome of a request call
Outcome(call, sent, reply, raised, errors, callbacks) ==
    [stage |-> "done", sent |-> sent, reply |-> reply, raised |-> raised, errors |-> errors,
     callbacks |-> callbacks] @@ call

\* Condition.not_negative_int, and a check that accepts every limit
accepts_any_limit(limit) == TRUE
not_negative_int(limit) == limit >= 0

\* the outcome of a reply that is MessageRejected or QueryFailure: one error
\* is logged and the call returns; and an outcome that raises instead
request_failed_raises(call, response) ==
    Outcome(call, call.sent, response, "RuntimeError", 0, <<>>)
request_failed(call, response) == Outcome(call, call.sent, response, "none", 1, <<>>)

\* Utf8TickSerializer.deserialize_bytes_list, Utf8BarSerializer.deserialize_bytes_list
\* and the list of decoded instruments
TickDeserializeList(symbol, data) ==
    [i \in 1..Len(data) |-> TickDeserialize(symbol, data[i])]
BarDeserializeList(data) == [i \in 1..Len(data) |-> BarDeserialize(data[i])]
InstrumentDeserializeList(data) == [i \in 1..Len(data) |-> InstrumentDeserialize(data[i])]

Invocation(callback, args) == [handler |-> callback, args |-> args]

RequestFrame == UNCHANGED <<registry, instruments, workers, inflight, deliv, backtest>>

request_ticks(symbol, from_date, to_date, limit, callback) ==
    /\ caller = Idle
    /\ LET call == Request("request_ticks", symbol, from_date, to_date, limit, callback)
       IN caller' =
            IF \/ symbol = NoneSymbol \/ from_date = NoneDate \/ to_date = NoneDate
               \/ ~not_negative_int(limit) \/ ~Callable(callback)
            THEN Outcome(call, <<>>, NoReply, "ValueError", 0, <<>>)
            ELSE Waiting(call, [data_type |-> "Tick[]", symbol |-> SymbolToString(symbol),
                                from_date |-> from_date, to_date |-> to_date,
                                limit |-> LimitToString(limit)])
    /\ UNCHANGED caches
    /\ RequestFrame

request_bars(bar_type, from_date, to_date, limit, callback) ==
    /\ caller = Idle
    /\ LET call == Request("request_bars", bar_type, from_date, to_date, limit, callback)
       IN caller' =
            IF \/ bar_type = NoneBarType \/ from_date = NoneDate \/ to_date = NoneDate
               \/ ~not_negative_int(limit) \/ ~Callable(callback)
            THEN Outcome(call, <<>>, NoReply, "ValueError", 0, <<>>)
            ELSE IF bar_type.specification.structure = "TICK"
            THEN Outcome(call, <<>>, [type |-> "_bulk_build_tick_bars"], "none", 0, <<>>)
            ELSE Waiting(call, [data_type |-> "Bar[]", symbol |-> SymbolToString(bar_type.symbol),
                                specification |-> BarSpecToString(bar_type.specification),
                                from_date |-> from_date, to_date |-> to_date,
                                limit |-> LimitToString(limit)])
    /\ UNCHANGED caches
    /\ RequestFrame

request_instrument(symbol, callback) ==
    /\ caller = Idle
    /\ LET call == Request("request_instrument", symbol, NoneDate, NoneDate, 0, callback)
       IN caller' =
            IF symbol = NoneSymbol \/ ~Callable(callback)
            THEN Outcome(call, <<>>, NoReply, "ValueError", 0, <<>>)
            ELSE Waiting(call, [data_type |-> "Instrument[]", symbol |-> SymbolToString(symbol)])
    /\ UNCHANGED caches
    /\ RequestFrame

request_instruments(venue, callback) ==
    /\ caller = Idle
    /\ LET call == Request("request_instruments", [venue |-> venue], NoneDate, NoneDate, 0, callback)
       IN caller' =
            IF ~Callable(callback)
            THEN Outcome(call, <<>>, NoReply, "ValueError", 0, <<>>)
            ELSE Waiting(call, [data_type |-> "Instrument[]", venue |-> venue])
    /\ UNCHANGED caches
    /\ RequestFrame

\* the reply arrives and the call runs to its end
Reply(response) ==
    /\ caller.stage = "waiting"
    /\ response \in Replies(caller.op)
    /\ IF response \in Failures
       THEN /\ caller' = request_failed(caller, response)
            /\ UNCHANGED caches
       ELSE LET done(raised, callbacks) ==
                    Outcome(caller, caller.sent, response, raised, 0, callbacks)
                data == response.data
                meta == response.metadata
            IN CASE caller.op = "request_ticks" ->
                    LET received_symbol == SymbolFromString(meta.symbol)
                    IN /\ cached_symbols' = CacheGet(cached_symbols, meta.symbol)
                       /\ UNCHANGED cached_bar_types
                       /\ caller' =
                            IF received_symbol # caller.key THEN done("AssertionError", <<>>)
                            ELSE done("none", <<Invocation(caller.handler,
                                        <<TickDeserializeList(received_symbol, data)>>)>>)
                 [] caller.op = "request_bars" ->
                    LET name == meta.symbol \o <<"-">> \o meta.specification
                        received_bar_type == BarTypeFromString(name)
                    IN /\ cached_bar_types' = CacheGet(cached_bar_types, name)
                       /\ UNCHANGED cached_symbols
                       /\ caller' =
                            IF received_bar_type # caller.key THEN done("AssertionError", <<>>)
                            ELSE done("none", <<Invocation(caller.handler,
                                        <<received_bar_type,
                                          BarDeserializeList(data)>>)>>)
                 [] caller.op = "request_instrument" ->
                    /\ UNCHANGED caches
                    /\ caller' =
                         IF data = <<>> THEN done("IndexError", <<>>)
                         ELSE IF InstrumentDeserialize(data[1]).symbol # caller.key
                         THEN done("AssertionError", <<>>)
                         ELSE done("none", <<Invocation(caller.handler,
                                        <<InstrumentDeserialize(data[1])>>)>>)
                 [] caller.op = "request_instruments" ->
                    /\ UNCHANGED caches
                    /\ caller' = done("none", <<Invocation(caller.handler,
                                    <<InstrumentDeserializeList(data)>>)>>)
    /\ RequestFrame

\* a live client with or without a tick subscription
InitReq ==
    /\ \E hs \in {<<>>, <<"h1">>} :
          /\ tick_handlers = [s \in Symbols |-> IF s = AUDUSD /\ hs # <<>> THEN <<hs>> ELSE <<>>]
          /\ sub_topics = [k \in Kinds |->
                IF k = "tick" /\ hs # <<>> THEN {SymbolToString(AUDUSD)} ELSE {}]
    /\ sub_calls = sub_topics
    /\ WorkersCreated
    /\ bar_handlers = [bt \in BarTypes |-> <<>>]
    /\ instrument_handlers = [s \in Symbols |-> <<>>]
    /\ bar_aggregators = [bt \in BarTypes |-> NoAggregator]
    /\ instruments = [s \in Symbols |-> NoInstrument]
    /\ cached_symbols = {}
    /\ cached_bar_types = {}
    /\ inflight = <<>>
    /\ deliv = NoDelivery
    /\ caller = Idle
    /\ NoBacktest

NextReq ==
    \/ \E from_date \in Dates \union {NoneDate}, to_date \in Dates \union {NoneDate},
          limit \in Limits, callback \in Handlers \union {NotCallable} :
          \/ \E symbol \in Symbols \union {NoneSymbol} :
                request_ticks(symbol, from_date, to_date, limit, callback)
          \/ \E bar_type \in BarTypes \union {NoneBarType} :
                request_bars(bar_type, from_date, to_date, limit, callback)
    \/ \E symbol \in Symbols \union {NoneSymbol}, callback \in Handlers \union {NotCallable} :
          request_instrument(symbol, callback)
    \/ \E venue \in Venues, callback \in Handlers \union {NotCallable} :
          request_instruments(venue, callback)
    \/ \E response \in UNION {Replies(op) : op \in {"request_ticks", "request_bars",
                                                    "request_instrument"}} : Reply(response)
    \/ reset
    \/ CallerStep
    \/ Return

SpecReq == InitReq /\ [][NextReq]_vars

----------------------------------------------------------------------------
(* Properties of the requests                                              *)

RequestOps == {"request_ticks", "request_bars", "request_instrument", "request_instruments"}
Requested == caller.stage = "done" /\ caller.op \in RequestOps
Succeeded == Requested /\ caller.reply.type = "DataResponse"

\* the arguments of the call other than its limit pass the preconditions
ValidButLimit ==
    /\ caller.key \notin {NoneSymbol, NoneBarType}
    /\ Callable(caller.handler)
    /\ caller.op \in {"request_ticks", "request_bars"} =>
          caller.from_date # NoneDate /\ caller.to_date # NoneDate

\* the subject embedded in a successful reply is the subject requested
SubjectMatches ==
    LET meta == caller.reply.metadata
        data == caller.reply.data
    IN CASE caller.op = "request_ticks" -> meta.symbol = SymbolToString(caller.key)
         [] caller.op = "request_bars" ->
                /\ meta.symbol = SymbolToString(caller.key.symbol)
                /\ meta.specification = BarSpecToString(caller.key.specification)
         [] caller.op = "request_instrument" ->
                data # <<>> /\ SubSeq(data[1], 1, 3) = SymbolToString(caller.key)
         [] caller.op = "request_instruments" ->
                \A i \in 1..Len(data) : data[i][3] = caller.key.venue

\* C4: request_ticks and request_bars with a negative limit raise before
\* anything is sent, invoke no callback and leave the caches and the
\* registry as they were; limit 0 passes the preconditions and is sent as "0".
C4_NegativeLimitFailsFast ==
    (caller.stage \in {"waiting", "done"} /\ caller.op \in {"request_ticks", "request_bars"}) =>
        /\ caller.limit < 0 =>
              /\ caller.stage = "done"
              /\ caller.raised = "ValueError"
              /\ caller.sent = <<>>
              /\ caller.callbacks = <<>>
              /\ caller.pre = <<caches, registry>>
        /\ (caller.limit = 0 /\ ValidButLimit /\ caller.stage = "done") =>
              /\ caller.raised # "ValueError"
              /\ caller.sent # <<>> => caller.sent[1].query.limit = <<"0">>
              /\ caller.sent = <<>> => caller.key.specification.structure = "TICK"

\* a request whose only offending argument is a negative limit has failed
C4_Witness ==
    /\ Requested /\ caller.op = "request_bars" /\ caller.limit < 0 /\ ValidButLimit
    /\ caller.raised = "ValueError"
    /\ cached_symbols # {}

\* C5: a reply that is MessageRejected or QueryFailure makes the request
\* log exactly one error, invoke no callback, raise nothing and leave the
\* caches as they were.
C5_FailureIsSoft ==
    (Requested /\ caller.reply \in Failures) =>
        /\ caller.errors = 1
        /\ caller.callbacks = <<>>
        /\ caller.raised = "none"
        /\ caller.pre[1] = caches

\* an instrument request has been answered by a failure, with a cache in use
C5_Witness ==
    /\ Requested /\ caller.op = "request_instrument"
    /\ caller.reply.type = "QueryFailure"
    /\ cached_symbols # {}

\* C6: a request that passes its preconditions sends exactly one message,
\* on the tick worker for request_ticks, the bar worker for request_bars of
\* a bar type that is not tick-structured, and the instrument worker for
\* request_instrument and request_instruments; on a success whose subject
\* matches, the callback is invoked exactly once, once the reply is there,
\* with the items of the reply decoded in their order (request_instrument
\* hands over the instrument of the reply, its first item).
C6_OneSendOneCallback ==
    /\ (caller.stage = "waiting" \/ (Requested /\ caller.reply.type \in
                                        {"DataResponse", "MessageRejected", "QueryFailure"})) =>
          /\ Len(caller.sent) = 1
          /\ caller.sent[1].channel =
                CASE caller.op = "request_ticks" -> "tick_req"
                  [] caller.op = "request_bars" -> "bar_req"
                  [] caller.op \in {"request_instrument", "request_instruments"} -> "inst_req"
    /\ (Requested /\ caller.limit >= 0 /\ ValidButLimit
            /\ ~(caller.op = "request_bars" /\ caller.key.specification.structure = "TICK")) =>
          Len(caller.sent) = 1
    /\ (Succeeded /\ SubjectMatches) =>
          LET data == caller.reply.data
              args == caller.callbacks[1].args
          IN /\ caller.raised = "none"
             /\ Len(caller.callbacks) = 1
             /\ caller.callbacks[1].handler = caller.handler
             /\ CASE caller.op = "request_ticks" ->
                      /\ Len(args[1]) = Len(data)
                      /\ \A i \in 1..Len(data) :
                            args[1][i] = [symbol |-> caller.key, price |-> data[i][1]]
                  [] caller.op = "request_bars" ->
                      /\ args[1] = caller.key
                      /\ Len(args[2]) = Len(data)
                      /\ \A i \in 1..Len(data) :
                            args[2][i] = [open |-> data[i][1], close |-> data[i][2]]
                  [] caller.op = "request_instrument" ->
                      args = <<[symbol |-> caller.key]>>
                  [] caller.op = "request_instruments" ->
                      /\ Len(args[1]) = Len(data)
                      /\ \A i \in 1..Len(data) :
                            args[1][i] = [symbol |-> [code |-> data[i][1], venue |-> data[i][3]]]

\* the callback of a tick request has received two different ticks
C6_Witness ==
    /\ Succeeded /\ caller.op = "request_ticks" /\ SubjectMatches
    /\ Len(caller.reply.data) = 2 /\ caller.reply.data[1] # caller.reply.data[2]
    /\ Len(caller.callbacks) = 1

\* C7: a successful reply whose subject differs from the subject requested
\* raises an error to the caller and invokes no callback.
C7_MismatchIsFatal ==
    (Succeeded /\ ~SubjectMatches) => (caller.raised # "none" /\ caller.callbacks = <<>>)

----------------------------------------------------------------------------
(* The backtest client: the merged tick stream and the tick-driven clock   *)

\* the latest timestamp of a tick or a timer, and the most ticks of a symbol
MaxTime == 2
MaxTicks == 1

Timestamps == 1..MaxTime
TimerOrder == <<"t1", "t2">>
TimerNames == Range(TimerOrder)
TimerIndex(name) == CHOOSE i \in 1..Len(TimerOrder) : TimerOrder[i] = name

\* the tick sequences the tick builder produces for one instrument:
\* ascending timestamps
TickTables(symbol) ==
    {[i \in 1..Len(ts) |-> [symbol |-> symbol, timestamp |-> ts[i]]] :
        ts \in {t \in SeqsUpTo(Timestamps, MaxTicks) :
                    \A i \in 1..(Len(t) - 1) : t[i] < t[i + 1]}}

\* the ticks left in the order of the concatenation
Unsorted(seq) == seq

\* a sort that puts a tick before the earlier ticks of its timestamp
RECURSIVE SortedTiesReversed(_)
SortedTiesReversed(seq) ==
    IF seq = <<>> THEN <<>>
    ELSE LET rest == SortedTiesReversed(SubSeq(seq, 1, Len(seq) - 1))
             last == seq[Len(seq)]
             k == Cardinality({i \in 1..Len(rest) : rest[i].timestamp < last.timestamp})
         IN SubSeq(rest, 1, k) \o <<last>> \o SubSeq(rest, k + 1, Len(rest))

\* sorted(ticks): ascending by timestamp, equal timestamps in their order
RECURSIVE Sorted(_)
Sorted(seq) ==
    IF seq = <<>> THEN <<>>
    ELSE LET rest == Sorted(SubSeq(seq, 1, Len(seq) - 1))
             last == seq[Len(seq)]
             k == Cardinality({i \in 1..Len(rest) : rest[i].timestamp <= last.timestamp})
         IN SubSeq(rest, 1, k) \o <<last>> \o SubSeq(rest, k + 1, Len(rest))

\* the instruments of the container in their order
InstrumentOrder == <<AUDUSD, GBPUSD>>

\* BacktestDataContainer: for each symbol, whether add_instrument was called
\* for it, whether add_ticks was, and the bar structures add_bars was called
\* with for the bid and for the ask side (a side has no entry for the symbol
\* until bars are added); built is what the tick builder makes of the tables
\* of the symbol: ascending timestamps
BarStructures == {"MINUTE", "HOUR"}
NoBars == [present |-> FALSE, structures |-> {}]
BarTables == {NoBars} \union {[present |-> TRUE, structures |-> {bs}] : bs \in BarStructures}
SymbolData(symbol) ==
    [instrument : BOOLEAN, ticks : BOOLEAN, bars_bid : BarTables, bars_ask : BarTables,
     built : TickTables(symbol)]
Containers == {[s \in Symbols |-> IF s = AUDUSD THEN a ELSE g] :
                    a \in SymbolData(AUDUSD), g \in SymbolData(GBPUSD)}

\* the symbols that are keys of the tick tables or of the bar tables
data_symbols(data) ==
    {s \in Symbols : data[s].ticks \/ data[s].bars_bid.present \/ data[s].bars_ask.present}

\* the truth value of a tuple: true unless it is empty
TupleTruth(tuple) == Len(tuple) > 0

\* the check of the needed instrument: the assert statement is given the
\* pair of the test and the message
instrument_asserted(symbol, known) ==
    TupleTruth(<<symbol \in known, "The needed instrument was not provided.">>)

\* DataProvider.__init__: the bar structure handed to the tick builder
Granularity(bars_bid) ==
    IF "SECOND" \in bars_bid.structures THEN "SECOND"
    ELSE IF "MINUTE" \in bars_bid.structures THEN "MINUTE"
    ELSE IF "HOUR" \in bars_bid.structures THEN "HOUR"
    ELSE "EMPTY"

\* the error that building the provider of an instrument raises: the bar
\* tables of the symbol are looked up on both sides, and the ask table of the
\* structure chosen on the bid side
provider_raises(symbol, data) ==
    IF ~data[symbol].bars_bid.present \/ ~data[symbol].bars_ask.present THEN "KeyError"
    ELSE IF Granularity(data[symbol].bars_bid) # "EMPTY"
            /\ Granularity(data[symbol].bars_bid) \notin data[symbol].bars_ask.structures
         THEN "KeyError"
         ELSE "none"

\* the ticks of the providers one after the other, in the order of the
\* instruments
RECURSIVE Concatenated(_, _)
Concatenated(order, providers) ==
    IF order = <<>> THEN <<>>
    ELSE (IF Head(order) \in DOMAIN providers THEN providers[Head(order)] ELSE <<>>)
            \o Concatenated(Tail(order), providers)

\* __init__: one provider per instrument, the ticks of all providers
\* concatenated and sorted, the session bounds taken from the concatenation
BacktestConstructed(providers) ==
    LET concatenated == Concatenated(InstrumentOrder, providers)
    IN /\ data_providers' = providers
       /\ ticks' = Sorted(concatenated)
       /\ min_timestamp' = concatenated[1].timestamp
       /\ max_timestamp' = concatenated[Len(concatenated)].timestamp

\* BacktestDataClient.__init__ on a container: the instruments are stored,
\* the needed instruments are asserted, a provider is built for each
\* instrument, the ticks are merged; an error at any of these ends the
\* construction and there is no client
__init__ ==
    /\ caller.op = "__init__" /\ caller.stage = "call"
    /\ LET data == caller.container
           known == {s \in Symbols : data[s].instrument}
           unprovided == {s \in data_symbols(data) : ~instrument_asserted(s, known)}
           failing == {s \in known : provider_raises(s, data) # "none"}
           providers == [s \in known |-> data[s].built]
           raised == IF unprovided # {} THEN "AssertionError"
                     ELSE IF failing # {} THEN "KeyError"
                     ELSE IF Concatenated(InstrumentOrder, providers) = <<>> THEN "IndexError"
                     ELSE "none"
       IN /\ caller' = [op |-> "__init__", stage |-> "done", container |-> data,
                        raised |-> raised]
          /\ IF raised = "none"
             THEN /\ instruments' = [s \in Symbols |->
                                        IF s \in known THEN [symbol |-> s] ELSE NoInstrument]
                  /\ BacktestConstructed(providers)
             ELSE UNCHANGED <<instruments, data_providers, ticks, min_timestamp, max_timestamp>>
    /\ UNCHANGED <<registry, caches, workers, inflight, deliv, clock_time, timers>>

\* a container is handed to the constructor
InitBacktest ==
    /\ EmptyRegistry
    /\ instruments = [s \in Symbols |-> NoInstrument]
    /\ cached_symbols = {}
    /\ cached_bar_types = {}
    /\ sub_topics = [k \in Kinds |-> {}]
    /\ sub_calls = [k \in Kinds |-> {}]
    /\ WorkersCreated
    /\ inflight = <<>>
    /\ deliv = NoDelivery
    /\ \E data \in Containers :
          caller = [op |-> "__init__", stage |-> "call", container |-> data]
    /\ NoBacktest

BacktestFrame == UNCHANGED <<instruments, caches, workers, inflight, deliv,
                             data_providers, ticks, min_timestamp, max_timestamp>>

\* a strategy sets a time alert on the clock
set_time_alert(name, alert_time) ==
    /\ caller = Idle
    /\ alert_time >= clock_time
    /\ \A t \in timers : t.name # name
    /\ timers' = timers \union {[name |-> name, trigger |-> alert_time]}
    /\ UNCHANGED <<registry, caller, clock_time>>
    /\ BacktestFrame

\* a handler argument that is None
NoneHandler == <<"None">>

\* Condition.is_in(element, collection) on a dictionary; and a check that
\* accepts every element
is_in_any(element, collection) == TRUE
is_in(element, collection) == element \in DOMAIN collection

\* Condition.type_or_none(argument, Callable)
type_or_none(argument) == argument = NoneHandler \/ Callable(argument)

\* the preconditions of subscribe_ticks, subscribe_bars, unsubscribe_ticks
\* and unsubscribe_bars of the backtest client
subscription_raises(symbol, handler) ==
    IF ~is_in(symbol, data_providers) THEN "ConditionFailed"
    ELSE IF ~type_or_none(handler) THEN "ConditionFailed"
    ELSE "none"

\* BacktestDataClient.subscribe_ticks and unsubscribe_ticks
backtest_subscribe_ticks(symbol, handler) ==
    /\ caller = Idle
    /\ Registered < MaxHandlers
    /\ tick_handlers' = IF subscription_raises(symbol, handler) = "none"
                        THEN AddHandler(tick_handlers, symbol, handler)
                        ELSE tick_handlers
    /\ caller' = Done("subscribe_ticks", symbol, handler,
                      subscription_raises(symbol, handler), <<>>, 0, <<>>,
                      [registry |-> registry])
    /\ UNCHANGED <<bar_handlers, instrument_handlers, bar_aggregators, clock_time, timers>>
    /\ BacktestFrame

backtest_unsubscribe_ticks(symbol, handler) ==
    /\ caller = Idle
    /\ tick_handlers' = IF subscription_raises(symbol, handler) = "none"
                        THEN RemoveHandler(tick_handlers, symbol, handler)
                        ELSE tick_handlers
    /\ caller' = Done("unsubscribe_ticks", symbol, handler,
                      subscription_raises(symbol, handler), <<>>, 0, <<>>,
                      [registry |-> registry])
    /\ UNCHANGED <<bar_handlers, instrument_handlers, bar_aggregators, clock_time, timers>>
    /\ BacktestFrame

\* BacktestDataClient.subscribe_bars: after the preconditions
\* _self_generate_bars creates the aggregator of the bar type if there is
\* none and subscribes it to the ticks of the symbol, then adds the handler
backtest_subscribe_bars(bar_type, handler) ==
    /\ caller = Idle
    /\ subscription_raises(bar_type.symbol, handler) = "none" => Registered + 1 < MaxHandlers
    /\ IF subscription_raises(bar_type.symbol, handler) = "none"
       THEN /\ bar_aggregators' = [bar_aggregators EXCEPT ![bar_type] =
                                     IF @.present THEN @ ELSE [present |-> TRUE, count |-> 0]]
            /\ tick_handlers' = IF bar_aggregators[bar_type].present THEN tick_handlers
                                ELSE AddHandler(tick_handlers, bar_type.symbol,
                                                AggregatorUpdate(bar_type))
            /\ bar_handlers' = AddHandler(bar_handlers, bar_type, handler)
       ELSE UNCHANGED <<tick_handlers, bar_handlers, bar_aggregators>>
    /\ caller' = Done("subscribe_bars", bar_type, handler,
                      subscription_raises(bar_type.symbol, handler), <<>>, 0, <<>>,
                      [registry |-> registry])
    /\ UNCHANGED <<instrument_handlers, clock_time, timers>>
    /\ BacktestFrame

\* BacktestDataClient.unsubscribe_bars
backtest_unsubscribe_bars(bar_type, handler) ==
    /\ caller = Idle
    /\ bar_handlers' = IF subscription_raises(bar_type.symbol, handler) = "none"
                       THEN RemoveHandler(bar_handlers, bar_type, handler)
                       ELSE bar_handlers
    /\ caller' = Done("unsubscribe_bars", bar_type, handler,
                      subscription_raises(bar_type.symbol, handler), <<>>, 0, <<>>,
                      [registry |-> registry])
    /\ UNCHANGED <<tick_handlers, instrument_handlers, bar_aggregators, clock_time, timers>>
    /\ BacktestFrame

\* TestClock: has_timers, next_event_time, and the timers due at a time in
\* the order of their triggers
has_timers == timers # {}
next_event_time == CHOOSE t \in {x.trigger : x \in timers} :
                        \A x \in timers : t <= x.trigger
RECURSIVE PendingEvents(_, _)
PendingEvents(pending, to_time) ==
    LET due == {x \in pending : x.trigger <= to_time}
    IN IF due = {} THEN <<>>
       ELSE LET first == CHOOSE x \in due :
                            \A y \in due : x.trigger < y.trigger
                                \/ (x.trigger = y.trigger
                                        /\ TimerIndex(x.name) <= TimerIndex(y.name))
            IN <<[do |-> "timer", name |-> first.name, trigger |-> first.trigger]>>
                 \o PendingEvents(pending \ {first}, to_time)

\* the test of process_tick for leaving the clock alone: a timer is pending
\* and the tick is before the next event; and a test that also holds at it
at_or_before_next_event(tick) == has_timers /\ tick.timestamp <= next_event_time
before_next_event(tick) == has_timers /\ tick.timestamp < next_event_time

\* the order of the steps of process_tick; and an order with the clock first
clock_before_dispatch(dispatched, advanced, fired) == advanced \o fired \o dispatched
\* an order with the timer callbacks before the clock is advanced
timers_before_clock(dispatched, advanced, fired) == dispatched \o fired \o advanced
process_tick_steps(dispatched, advanced, fired) == dispatched \o advanced \o fired

\* process_tick: the tick goes to the handlers of its symbol; unless a timer
\* is pending whose trigger is later than the tick, the clock is advanced to
\* the tick and the timers due are fired
process_tick(tick) ==
    /\ caller = Idle
    /\ tick.timestamp >= clock_time
    /\ LET handlers == tick_handlers[tick.symbol]
           dispatched == [i \in 1..Len(handlers) |->
                            [do |-> "tick_handler", handler |-> handlers[i], tick |-> tick]]
           call == [op |-> "process_tick", stage |-> "done", tick |-> tick,
                    pre |-> <<clock_time, timers>>]
       IN IF before_next_event(tick)
          THEN /\ caller' = [trace |-> process_tick_steps(dispatched, <<>>, <<>>)] @@ call
               /\ UNCHANGED <<clock_time, timers>>
          ELSE /\ clock_time' = tick.timestamp
               /\ timers' = {x \in timers : x.trigger > tick.timestamp}
               /\ caller' = [trace |-> process_tick_steps(dispatched,
                                <<[do |-> "advance_time", to_time |-> tick.timestamp]>>,
                                PendingEvents(timers, tick.timestamp))] @@ call
    /\ UNCHANGED registry
    /\ BacktestFrame

\* the record of a call of the backtest client that has come back: the error
\* it raised, the callback invocations it made, and the registry, the
\* instruments, the merged ticks and the clock as they were when it started
BacktestDone(op, key, handler, raised, callbacks) ==
    Done(op, key, handler, raised, <<>>, 0, callbacks,
         [registry |-> registry, instruments |-> instruments, ticks |-> ticks,
          clock_time |-> clock_time, timers |-> timers, data_providers |-> data_providers,
          min_timestamp |-> min_timestamp, max_timestamp |-> max_timestamp])

\* a method that only logs but sets the clock back
BacktestQuietClockRewound ==
    /\ UNCHANGED <<registry, timers>>
    /\ clock_time' = 0
    /\ BacktestFrame

\* what a method of the backtest client that only logs or calls back leaves
\* unchanged
BacktestQuiet ==
    /\ UNCHANGED <<registry, clock_time, timers>>
    /\ BacktestFrame

\* BacktestDataClient.connect: a log line
backtest_connect ==
    /\ caller = Idle
    /\ caller' = BacktestDone("connect", NoneSymbol, NotCallable, "none", <<>>)
    /\ BacktestQuiet

\* request_ticks and request_bars of the backtest client; the one that hands
\* no ticks to the callback, the other an empty list
request_invokes_with_nothing(callback) == <<Invocation(callback, <<>>)>>
request_only_logs(callback) == <<>>

backtest_request_ticks(symbol, from_datetime, to_datetime, limit, callback) ==
    /\ caller = Idle
    /\ caller' = IF Callable(callback)
                 THEN BacktestDone("request_ticks", symbol, callback, "none",
                                   request_only_logs(callback))
                 ELSE BacktestDone("request_ticks", symbol, callback, "ConditionFailed", <<>>)
    /\ BacktestQuiet

backtest_request_bars(bar_type, from_datetime, to_datetime, limit, callback) ==
    /\ caller = Idle
    /\ caller' = IF Callable(callback)
                 THEN BacktestDone("request_bars", bar_type, callback, "none",
                                   request_only_logs(callback))
                 ELSE BacktestDone("request_bars", bar_type, callback, "ConditionFailed", <<>>)
    /\ BacktestQuiet

\* self._instruments[symbol]: the instrument stored, or a KeyError; and a
\* lookup without one
lookup_defaults(symbol) == "none"
lookup_raises(symbol) == IF instruments[symbol] = NoInstrument THEN "KeyError" ELSE "none"

\* the values of self._instruments in their order
RECURSIVE InstrumentValues(_)
InstrumentValues(order) ==
    IF order = <<>> THEN <<>>
    ELSE (IF instruments[Head(order)] = NoInstrument THEN <<>>
          ELSE <<instruments[Head(order)]>>) \o InstrumentValues(Tail(order))

\* request_instrument and request_instruments of the backtest client
backtest_request_instrument(symbol, callback) ==
    /\ caller = Idle
    /\ caller' = IF ~Callable(callback)
                 THEN BacktestDone("request_instrument", symbol, callback,
                                   "ConditionFailed", <<>>)
                 ELSE IF lookup_raises(symbol) # "none"
                 THEN BacktestDone("request_instrument", symbol, callback,
                                   lookup_raises(symbol), <<>>)
                 ELSE BacktestDone("request_instrument", symbol, callback, "none",
                                   <<Invocation(callback, instruments[symbol])>>)
    /\ BacktestQuiet

backtest_request_instruments(callback) ==
    /\ caller = Idle
    /\ caller' = IF ~Callable(callback)
                 THEN BacktestDone("request_instruments", NoneSymbol, callback,
                                   "ConditionFailed", <<>>)
                 ELSE BacktestDone("request_instruments", NoneSymbol, callback, "none",
                                   <<Invocation(callback, InstrumentValues(InstrumentOrder))>>)
    /\ BacktestQuiet

\* subscribe_instrument and unsubscribe_instrument of the backtest client:
\* the handler is checked and a line is logged; and one that registers it
instrument_handler_added(symbol, handler) == AddHandler(instrument_handlers, symbol, handler)
instrument_handler_logged(symbol, handler) == instrument_handlers

backtest_subscribe_instrument(symbol, handler) ==
    /\ caller = Idle
    /\ IF Callable(handler)
       THEN /\ instrument_handlers' = instrument_handler_logged(symbol, handler)
            /\ caller' = BacktestDone("subscribe_instrument", symbol, handler, "none", <<>>)
       ELSE /\ instrument_handlers' = instrument_handlers
            /\ caller' = BacktestDone("subscribe_instrument", symbol, handler,
                                      "ConditionFailed", <<>>)
    /\ UNCHANGED <<tick_handlers, bar_handlers, bar_aggregators, clock_time, timers>>
    /\ BacktestFrame

backtest_unsubscribe_instrument(symbol, handler) ==
    /\ caller = Idle
    /\ IF Callable(handler)
       THEN /\ instrument_handlers' = instrument_handlers
            /\ caller' = BacktestDone("unsubscribe_instrument", symbol, handler, "none", <<>>)
       ELSE /\ instrument_handlers' = instrument_handlers
            /\ caller' = BacktestDone("unsubscribe_instrument", symbol, handler,
                                      "ConditionFailed", <<>>)
    /\ UNCHANGED <<tick_handlers, bar_handlers, bar_aggregators, clock_time, timers>>
    /\ BacktestFrame

\* the loop of reset over the providers: a log line for each of them; and
\* one that empties the ticks of the provider
provider_reset_rewinds(provider) == <<>>
provider_reset_logged(provider) == provider

\* BacktestDataClient.reset: the registry of the base class is cleared, then
\* the loop over the providers
backtest_reset ==
    /\ caller = Idle
    /\ tick_handlers' = [s \in Symbols |-> <<>>]
    /\ bar_handlers' = [bt \in BarTypes |-> <<>>]
    /\ instrument_handlers' = [s \in Symbols |-> <<>>]
    /\ bar_aggregators' = [bt \in BarTypes |-> NoAggregator]
    /\ data_providers' = [s \in DOMAIN data_providers |->
                            provider_reset_logged(data_providers[s])]
    /\ caller' = BacktestDone("reset", NoneSymbol, NotCallable, "none", <<>>)
    /\ UNCHANGED <<clock_time, timers>>
    /\ UNCHANGED <<instruments, caches, workers, inflight, deliv, ticks, min_timestamp,
                   max_timestamp>>

\* a call returns; a constructor that raised has returned no client
BacktestReturn ==
    /\ caller.stage = "done"
    /\ caller.op = "__init__" => caller.raised = "none"
    /\ caller' = Idle
    /\ UNCHANGED <<registry, clock_time, timers>>
    /\ BacktestFrame

NextBacktest ==
    \/ __init__
    \/ \E name \in TimerNames, alert_time \in Timestamps : set_time_alert(name, alert_time)
    \/ \E symbol \in Symbols \union {NoneSymbol}, handler \in Handlers \union {NotCallable} :
          \/ backtest_subscribe_ticks(symbol, handler)
          \/ backtest_unsubscribe_ticks(symbol, handler)
    \/ \E tick \in Range(ticks) : process_tick(tick)
    \/ backtest_connect
    \/ \E callback \in Handlers \union {NotCallable} :
          \/ \E symbol \in Symbols : backtest_request_ticks(symbol, NoneDate, NoneDate, 0, callback)
          \/ \E bar_type \in BarTypes :
                backtest_request_bars(bar_type, NoneDate, NoneDate, 0, callback)
          \/ \E symbol \in Symbols : backtest_request_instrument(symbol, callback)
          \/ backtest_request_instruments(callback)
    \/ \E symbol \in Symbols, handler \in Handlers \union {NotCallable} :
          \/ backtest_subscribe_instrument(symbol, handler)
          \/ backtest_unsubscribe_instrument(symbol, handler)
    \/ backtest_reset
    \/ BacktestReturn

SpecBacktest == InitBacktest /\ [][NextBacktest]_vars

\* C9: process_tick hands the tick to every tick handler of its symbol,
\* whatever the state of the clock, and all of these invocations come before
\* the clock is advanced and before any timer callback.
C9_DispatchFirst ==
    (caller.op = "process_tick" /\ caller.stage = "done") =>
        LET handlers == tick_handlers[caller.tick.symbol]
            trace == caller.trace
        IN /\ Len(trace) >= Len(handlers)
           /\ \A i \in 1..Len(handlers) :
                 trace[i] = [do |-> "tick_handler", handler |-> handlers[i],
                             tick |-> caller.tick]
           /\ \A i \in (Len(handlers) + 1)..Len(trace) : trace[i].do # "tick_handler"

\* a tick has gone to a handler in a call that advanced the clock and fired
\* a timer
C9_Witness ==
    /\ caller.op = "process_tick" /\ caller.stage = "done"
    /\ \E i, j, k \in 1..Len(caller.trace) :
          /\ caller.trace[i].do = "tick_handler"
          /\ caller.trace[j].do = "advance_time"
          /\ caller.trace[k].do = "timer"

\* C10: when no timer is pending, or the earliest trigger is later than the
\* tick, process_tick leaves the time of the clock unchanged and fires no
\* timer.
C10_FastPath ==
    (caller.op = "process_tick" /\ caller.stage = "done") =>
        LET pre_time == caller.pre[1]
            pre_timers == caller.pre[2]
        IN (pre_timers = {} \/ \A x \in pre_timers : x.trigger > caller.tick.timestamp) =>
              /\ clock_time = pre_time
              /\ \A i \in 1..Len(caller.trace) : caller.trace[i].do = "tick_handler"

\* C11: when timers are pending and the earliest trigger is not later than
\* the tick, process_tick sets the time of the clock to the timestamp of the
\* tick, invokes the callback of every timer due at or before it exactly once
\* in that call, and invokes no timer that is not yet due, which stays pending.
C11_DueTimersFireOnce ==
    (caller.op = "process_tick" /\ caller.stage = "done") =>
        LET pre_timers == caller.pre[2]
            now == caller.tick.timestamp
            fired(x) == Cardinality({i \in 1..Len(caller.trace) :
                            /\ caller.trace[i].do = "timer"
                            /\ caller.trace[i].name = x.name
                            /\ caller.trace[i].trigger = x.trigger})
        IN (pre_timers # {} /\ \E x \in pre_timers : x.trigger <= now) =>
              /\ clock_time = now
              /\ \A x \in pre_timers :
                    IF x.trigger <= now THEN fired(x) = 1 /\ x \notin timers
                    ELSE fired(x) = 0 /\ x \in timers
              /\ \A i \in 1..Len(caller.trace) :
                    caller.trace[i].do = "timer" =>
                        \E x \in pre_timers : x.name = caller.trace[i].name

\* a call that fired one timer and left a later one pending
C11_Witness ==
    /\ caller.op = "process_tick" /\ caller.stage = "done"
    /\ \E x, y \in caller.pre[2] :
          /\ x.trigger <= caller.tick.timestamp
          /\ y.trigger > caller.tick.timestamp
          /\ y \in timers
          /\ \E i \in 1..Len(caller.trace) :
                caller.trace[i].do = "timer" /\ caller.trace[i].name = x.name

\* a client has been constructed
Constructed == caller.op = "__init__" => (caller.stage = "done" /\ caller.raised = "none")

IsPermutation(a, b) ==
    /\ Len(a) = Len(b)
    /\ \A x \in Range(a) \union Range(b) : Count(a, x) = Count(b, x)
NonDecreasing(seq) == \A i \in 1..(Len(seq) - 1) : seq[i].timestamp <= seq[i + 1].timestamp

\* C12: once the client is constructed its merged tick stream is a
\* permutation of the concatenation of the ticks of its providers with
\* non-decreasing timestamps, and no step of connect, reset, subscribe,
\* unsubscribe, request or process_tick changes it.
C12_MergedStreamFixed ==
    [][Constructed' =>
          /\ IsPermutation(ticks', Concatenated(InstrumentOrder, data_providers'))
          /\ NonDecreasing(ticks')
          /\ Constructed => ticks' = ticks]_vars

\* a tick has been processed of a stream of two providers that is not in the
\* order of the concatenation
C12_Witness ==
    /\ caller.op = "process_tick" /\ caller.stage = "done"
    /\ Len(ticks) >= 2
    /\ ticks # Concatenated(InstrumentOrder, data_providers)

\* C13: after construction min_timestamp is the smallest and max_timestamp
\* the largest timestamp of the merged tick stream, for any number of
\* providers.
C13_SessionBounds ==
    (Constructed /\ ticks # <<>>) =>
        /\ \E i \in 1..Len(ticks) : ticks[i].timestamp = min_timestamp
        /\ \E i \in 1..Len(ticks) : ticks[i].timestamp = max_timestamp
        /\ \A i \in 1..Len(ticks) :
              min_timestamp <= ticks[i].timestamp /\ ticks[i].timestamp <= max_timestamp

\* C14: constructing from a container in which a symbol is a key of the tick
\* tables or of the bid or ask bar tables and has no instrument fails, and no
\* client is returned.
C14_MissingInstrumentFails ==
    (caller.op = "__init__" /\ caller.stage = "done") =>
        ((\E s \in data_symbols(caller.container) : ~caller.container[s].instrument)
            => caller.raised # "none")

\* C15: construction builds one provider for each instrument of the
\* container, also for an instrument with no tick table and for one with no
\* bar tables on either side: the keys of data_providers are the instruments.
C15_ProviderPerInstrument ==
    (caller.op = "__init__" /\ caller.stage = "done") =>
        LET data == caller.container
            known == {s \in Symbols : data[s].instrument}
        IN (/\ data_symbols(data) \subseteq known
            /\ \E s \in known : data[s].built # <<>>
            /\ \A s \in known :
                  /\ data[s].bars_bid.present = data[s].bars_ask.present
                  /\ data[s].bars_bid.structures = data[s].bars_ask.structures)
           => /\ caller.raised = "none"
              /\ DOMAIN data_providers = known

\* a call of the backtest client has returned and has left the registry, the
\* instruments, the merged ticks and the clock as they were
BacktestUntouched ==
    /\ registry = caller.pre.registry
    /\ instruments = caller.pre.instruments
    /\ ticks = caller.pre.ticks
    /\ clock_time = caller.pre.clock_time
    /\ timers = caller.pre.timers

\* C16: request_ticks and request_bars of the backtest client with a callable
\* callback only log: the callback is invoked zero times and the registry,
\* the instruments, the merged tick stream and the clock are unchanged.
C16_RequestsOnlyLog ==
    (/\ caller.stage = "done"
     /\ caller.op \in {"request_ticks", "request_bars"}
     /\ Callable(caller.handler)) =>
        /\ caller.raised = "none"
        /\ caller.callbacks = <<>>
        /\ BacktestUntouched

\* request_ticks has returned on a client with a handler subscribed, a timer
\* pending and the clock advanced
C16_Witness ==
    /\ caller.stage = "done" /\ caller.op = "request_ticks"
    /\ Callable(caller.handler)
    /\ Registered > 0
    /\ timers # {}
    /\ clock_time > 0

C18_InstrumentSubscriptionsNoOp ==
    (/\ caller.stage = "done"
     /\ caller.op \in {"subscribe_instrument", "unsubscribe_instrument"}
     /\ Callable(caller.handler)) =>
        /\ caller.raised = "none"
        /\ caller.callbacks = <<>>
        /\ BacktestUntouched
        /\ \A s \in Symbols : ~Contains(instrument_handlers[s], caller.handler)

\* subscribe_instrument has returned for a symbol of the client
C18_Witness ==
    /\ caller.stage = "done" /\ caller.op = "subscribe_instrument"
    /\ Callable(caller.handler)
    /\ instruments[caller.key] # NoInstrument

\* C19: reset of the backtest client clears the handler registries and keeps
\* the built data: the merged tick stream, min_timestamp, max_timestamp and
\* the ticks of the providers are as before, and no handler registered before
\* the reset is left under any key, so that no tick processed afterwards goes
\* to it.
C19_ResetKeepsData ==
    (caller.stage = "done" /\ caller.op = "reset") =>
        /\ ticks = caller.pre.ticks
        /\ min_timestamp = caller.pre.min_timestamp
        /\ max_timestamp = caller.pre.max_timestamp
        /\ data_providers = caller.pre.data_providers
        /\ instruments = caller.pre.instruments
        /\ \A s \in Symbols : tick_handlers[s] = <<>> /\ instrument_handlers[s] = <<>>
        /\ \A bt \in BarTypes : bar_handlers[bt] = <<>> /\ ~bar_aggregators[bt].present
        /\ \A tick \in Range(ticks) : tick_handlers[tick.symbol] = <<>>

\* reset has returned on a client that had a handler for the ticks of a
\* symbol of its stream
C19_Witness ==
    /\ caller.stage = "done" /\ caller.op = "reset"
    /\ \E tick \in Range(ticks) : caller.pre.registry[1][tick.symbol] # <<>>

\* C20: reset of the live client is atomic with respect to the delivery path:
\* from the clearing of the symbol cache until the registries are cleared no
\* message is delivered.
ResetInProgress ==
    /\ caller.op = "reset" /\ caller.stage = "running"
    /\ Len(caller.todo) < Len(reset_body)
C20_ResetAtomic == [][ResetInProgress => Len(inflight') >= Len(inflight)]_vars

----------------------------------------------------------------------------
(* Two caller threads on the instrument request channel.  caller holds the *)
(* call of each thread, inflight the requests sent and not yet answered.   *)

Threads == {"T1", "T2"}

\* RequestWorker.send: the request goes out on the channel of the worker and
\* the thread blocks until a reply is received on it
WorkerSend(thread, call) ==
    Append(inflight, [channel |-> ChannelOf(call.op), from |-> thread, op |-> call.op,
                      key |-> call.key])

\* the replies of the data service to a request on the instrument channel
ServiceReplies(request) ==
    Failures \union
    (IF request.op = "request_instrument"
     THEN {DataResponse([venue |-> request.key.venue], <<InstrumentPayload(request.key)>>)}
     ELSE {DataResponse([venue |-> request.key.venue], d) :
              d \in SeqsUpTo({InstrumentPayload(s) : s \in Symbols}, MaxData)})

\* the requests outstanding on a channel, oldest first, and the place of the
\* oldest one among all outstanding requests
Outstanding(channel) == SelectSeq(inflight, LAMBDA r : r.channel = channel)
Oldest(channel) ==
    CHOOSE i \in 1..Len(inflight) :
        /\ inflight[i].channel = channel
        /\ \A j \in 1..(i - 1) : inflight[j].channel # channel

ThreadsFrame == UNCHANGED <<registry, instruments, caches, workers, deliv, backtest>>

\* request_instrument and request_instruments called on a thread: the
\* preconditions, then the send on the instrument request worker
thread_request_instrument(thread, symbol, callback) ==
    /\ caller[thread] = Idle
    /\ LET call == Request("request_instrument", symbol, NoneDate, NoneDate, 0, callback)
       IN IF symbol = NoneSymbol \/ ~Callable(callback)
          THEN /\ caller' = [caller EXCEPT ![thread] =
                                Outcome(call, <<>>, NoReply, "ValueError", 0, <<>>)]
               /\ inflight' = inflight
          ELSE /\ caller' = [caller EXCEPT ![thread] =
                                Waiting(call, [data_type |-> "Instrument[]",
                                               symbol |-> SymbolToString(symbol)])]
               /\ inflight' = WorkerSend(thread, call)
    /\ ThreadsFrame

thread_request_instruments(thread, venue, callback) ==
    /\ caller[thread] = Idle
    /\ LET call == Request("request_instruments", [venue |-> venue], NoneDate, NoneDate, 0,
                           callback)
       IN IF ~Callable(callback)
          THEN /\ caller' = [caller EXCEPT ![thread] =
                                Outcome(call, <<>>, NoReply, "ValueError", 0, <<>>)]
               /\ inflight' = inflight
          ELSE /\ caller' = [caller EXCEPT ![thread] =
                                Waiting(call, [data_type |-> "Instrument[]", venue |-> venue])]
               /\ inflight' = WorkerSend(thread, call)
    /\ ThreadsFrame

\* the service answers the oldest request outstanding on the channel; a
\* thread blocked in the send of that worker receives the reply and runs its
\* call to the end; answers records whose request the reply was made for
thread_reply(thread) ==
    /\ caller[thread].stage = "waiting"
    /\ \E response \in ServiceReplies(inflight[Oldest(ChannelOf(caller[thread].op))]) :
          LET call == caller[thread]
              i == Oldest(ChannelOf(call.op))
              request == inflight[i]
              done(raised, errors, callbacks) ==
                   [answers |-> request.from]
                       @@ Outcome(call, call.sent, response, raised, errors, callbacks)
          IN /\ inflight' = SubSeq(inflight, 1, i - 1) \o SubSeq(inflight, i + 1, Len(inflight))
             /\ caller' = [caller EXCEPT ![thread] =
                   IF response \in Failures THEN done("none", 1, <<>>)
                   ELSE IF call.op = "request_instrument"
                   THEN IF response.data = <<>> THEN done("IndexError", 0, <<>>)
                        ELSE IF InstrumentDeserialize(response.data[1]).symbol # call.key
                        THEN done("AssertionError", 0, <<>>)
                        ELSE done("none", 0, <<Invocation(call.handler,
                                       <<InstrumentDeserialize(response.data[1])>>)>>)
                   ELSE done("none", 0, <<Invocation(call.handler,
                                       <<InstrumentDeserializeList(response.data)>>)>>)]
    /\ ThreadsFrame

thread_return(thread) ==
    /\ caller[thread].stage = "done"
    /\ caller' = [caller EXCEPT ![thread] = Idle]
    /\ UNCHANGED inflight
    /\ ThreadsFrame

InitThreads ==
    /\ EmptyRegistry
    /\ instruments = [s \in Symbols |-> NoInstrument]
    /\ cached_symbols = {}
    /\ cached_bar_types = {}
    /\ sub_topics = [k \in Kinds |-> {}]
    /\ sub_calls = [k \in Kinds |-> {}]
    /\ WorkersCreated
    /\ inflight = <<>>
    /\ deliv = NoDelivery
    /\ caller = [t \in Threads |-> Idle]
    /\ NoBacktest

NextThreads ==
    \E thread \in Threads :
        \/ \E symbol \in Symbols \union {NoneSymbol}, callback \in Handlers \union {NotCallable} :
              thread_request_instrument(thread, symbol, callback)
        \/ \E venue \in Venues, callback \in Handlers \union {NotCallable} :
              thread_request_instruments(thread, venue, callback)
        \/ thread_reply(thread)
        \/ thread_return(thread)

SpecThreads == InitThreads /\ [][NextThreads]_vars

\* C21: with two caller threads no request/reply channel has more than one
\* request outstanding, and the reply a call of request_instrument or
\* request_instruments receives is the reply to its own request.
C21_OneOutstanding ==
    /\ \A channel \in {"tick_req", "bar_req", "inst_req"} : Len(Outstanding(channel)) <= 1
    /\ \A thread \in Threads :
          (caller[thread].stage = "done" /\ caller[thread].reply # NoReply)
              => caller[thread].answers = thread

----------------------------------------------------------------------------
(* The life cycle of the live client: construction, connect, disconnect    *)

\* the ports of the constructor in the order of its checks, the port numbers
\* and the service addresses it is called with
PortOrder == <<"tick_rep_port", "tick_pub_port", "bar_rep_port", "bar_pub_port",
               "inst_rep_port", "inst_pub_port">>
PortNames == Range(PortOrder)
PortNumbers == {-1, 0, 65535, 65536}
Addresses == {<<>>, <<"localhost">>}

\* Condition.valid_string and Condition.valid_port
valid_string(argument) == argument # <<>>
valid_port(port) == 0 <= port /\ port <= 65535

\* the ports the constructor checks; and the reply ports only
reply_ports_checked == {"tick_rep_port", "bar_rep_port", "inst_rep_port"}
ports_checked == PortNames

\* the workers in the order of connect and of disconnect
LifecycleOrder == <<"tick_req", "tick_sub", "bar_req", "bar_sub", "inst_req", "inst_sub">>

LifecycleFrame == UNCHANGED <<registry, instruments, caches, sub_topics, sub_calls, inflight,
                              deliv, backtest>>

\* LiveDataClient.__init__: the address and the ports are checked, then the
\* base class is initialised and the six workers are created
LiveDataClient__init__(service_address, ports) ==
    /\ caller.op = "__init__" /\ caller.stage = "call"
    /\ LET valid == /\ valid_string(service_address)
                    /\ \A p \in ports_checked : valid_port(ports[p])
       IN /\ caller' = [op |-> "__init__", stage |-> "done",
                        service_address |-> service_address, ports |-> ports,
                        raised |-> IF valid THEN "none" ELSE "ValueError",
                        pre |-> worker_state]
          /\ worker_state' = IF valid THEN [w \in Workers |-> "created"] ELSE worker_state
    /\ LifecycleFrame

\* LiveDataClient.connect: each worker is connected
live_connect ==
    /\ caller = Idle
    /\ worker_state' = [w \in Workers |-> "connected"]
    /\ caller' = Done("connect", NoneSymbol, NotCallable, "none", <<>>, 0, <<>>, worker_state)
    /\ LifecycleFrame

\* the outcome of a worker's disconnect
Faults == {"none", "ZMQError"}

\* the except clause of disconnect; and one that catches nothing
catches_nothing(ex) == FALSE
catches(ex) == ex = "ZMQError"

\* the workers disconnect is called on: those up to the first that raises
RECURSIVE Attempted(_, _)
Attempted(order, faults) ==
    IF order = <<>> THEN <<>>
    ELSE IF faults[Head(order)] # "none" THEN <<Head(order)>>
    ELSE <<Head(order)>> \o Attempted(Tail(order), faults)

\* LiveDataClient.disconnect: the workers are disconnected one after the
\* other inside one try block; a ZMQError ends the block and is logged
live_disconnect(faults) ==
    /\ caller = Idle
    /\ LET attempted == Attempted(LifecycleOrder, faults)
           last == attempted[Len(attempted)]
           ex == faults[last]
       IN /\ worker_state' = [w \in Workers |->
                IF w \in Range(attempted) /\ faults[w] = "none"
                THEN "disconnected" ELSE worker_state[w]]
          /\ caller' = [faults |-> faults]
                @@ Done("disconnect", NoneSymbol, NotCallable,
                        IF ex # "none" /\ ~catches(ex) THEN ex ELSE "none",
                        attempted,
                        IF ex # "none" /\ catches(ex) THEN 1 ELSE 0,
                        <<>>, worker_state)
    /\ LifecycleFrame

\* a call returns; a constructor that raised has returned no client
LifecycleReturn ==
    /\ caller.stage = "done"
    /\ caller.op = "__init__" => caller.raised = "none"
    /\ caller' = Idle
    /\ UNCHANGED worker_state
    /\ LifecycleFrame

InitLifecycle ==
    /\ EmptyRegistry
    /\ instruments = [s \in Symbols |-> NoInstrument]
    /\ cached_symbols = {}
    /\ cached_bar_types = {}
    /\ sub_topics = [k \in Kinds |-> {}]
    /\ sub_calls = [k \in Kinds |-> {}]
    /\ worker_state = [w \in Workers |-> "absent"]
    /\ inflight = <<>>
    /\ deliv = NoDelivery
    /\ caller = [op |-> "__init__", stage |-> "call"]
    /\ NoBacktest

NextLifecycle ==
    \/ \E service_address \in Addresses, ports \in [PortNames -> PortNumbers] :
          LiveDataClient__init__(service_address, ports)
    \/ live_connect
    \/ \E faults \in [Workers -> Faults] : live_disconnect(faults)
    \/ LifecycleReturn

SpecLifecycle == InitLifecycle /\ [][NextLifecycle]_vars

\* C22: disconnect of the live client does not propagate a transport fault:
\* whichever of the six workers raises a ZMQError in its disconnect, the error
\* is logged and disconnect returns normally.
C22_DisconnectDoesNotThrow ==
    (caller.op = "disconnect" /\ caller.stage = "done") =>
        /\ caller.raised = "none"
        /\ caller.errors = (IF \E w \in Range(caller.sent) : caller.faults[w] = "ZMQError"
                            THEN 1 ELSE 0)

\* disconnect has returned after the disconnect of a worker raised
C22_Witness ==
    /\ caller.op = "disconnect" /\ caller.stage = "done"
    /\ \E w \in Range(caller.sent) : caller.faults[w] = "ZMQError"
    /\ caller.raised = "none"

\* C23: construction of the live client succeeds when the six ports are in
\* 0..65535 and the address is not empty; when a port is outside the range or
\* the address is empty it fails with a precondition violation and no channel
\* worker has been created.
C23_ConstructionChecksPorts ==
    (caller.op = "__init__" /\ caller.stage = "done") =>
        IF /\ caller.service_address # <<>>
           /\ \A p \in PortNames : caller.ports[p] \in 0..65535
        THEN /\ caller.raised = "none"
             /\ \A w \in Workers : worker_state[w] = "created"
        ELSE /\ caller.raised = "ValueError"
             /\ \A w \in Workers : worker_state[w] = "absent"

\* construction has failed for one port just above the range
C23_Witness ==
    /\ caller.op = "__init__" /\ caller.stage = "done"
    /\ caller.service_address # <<>>
    /\ Cardinality({p \in PortNames : caller.ports[p] \notin 0..65535}) = 1
    /\ \E p \in PortNames : caller.ports[p] = 65536
    /\ caller.raised = "ValueError"

----------------------------------------------------------------------------
(* Two backtest clients built from one container and replayed side by side *)
(* every variable of the backtest client holds one value per client        *)

Clients == {"A", "B"}

\* the containers of the replay: both instruments, ticks and bars of one
\* structure on both sides for each, any tick tables
ReplayContainers ==
    {data \in Containers : \A s \in Symbols :
        /\ data[s].instrument /\ data[s].ticks
        /\ data[s].bars_bid.present /\ data[s].bars_bid = data[s].bars_ask}

\* the clock a client advances and reads, self._clock: its own; and the
\* clock of the first client for both
clock_of_first(client) == "A"
clock_of(client) == client

NextEventTime(pending) == CHOOSE t \in {x.trigger : x \in pending} :
                              \A x \in pending : t <= x.trigger

ReplayBuilt(client) == caller[client].stage = "done" /\ caller[client].raised = "none"

ReplayFrame == UNCHANGED <<bar_handlers, instrument_handlers, bar_aggregators, instruments,
                           caches, workers, inflight, deliv>>

\* BacktestDataClient.__init__ of one of the clients on the container
replay__init__(client) ==
    /\ caller[client].stage = "call"
    /\ LET data == caller[client].container
           known == {s \in Symbols : data[s].instrument}
           unprovided == {s \in data_symbols(data) : ~instrument_asserted(s, known)}
           failing == {s \in known : provider_raises(s, data) # "none"}
           providers == [s \in known |-> data[s].built]
           concatenated == Concatenated(InstrumentOrder, providers)
           raised == IF unprovided # {} THEN "AssertionError"
                     ELSE IF failing # {} THEN "KeyError"
                     ELSE IF concatenated = <<>> THEN "IndexError"
                     ELSE "none"
       IN /\ caller' = [caller EXCEPT ![client] =
                            [op |-> "__init__", stage |-> "done", container |-> data,
                             raised |-> raised, fed |-> 0, trace |-> <<>>]]
          /\ IF raised = "none"
             THEN /\ data_providers' = [data_providers EXCEPT ![client] = providers]
                  /\ ticks' = [ticks EXCEPT ![client] = Sorted(concatenated)]
                  /\ min_timestamp' = [min_timestamp EXCEPT ![client] =
                                            concatenated[1].timestamp]
                  /\ max_timestamp' = [max_timestamp EXCEPT ![client] =
                                            concatenated[Len(concatenated)].timestamp]
             ELSE UNCHANGED <<data_providers, ticks, min_timestamp, max_timestamp>>
    /\ UNCHANGED <<tick_handlers, clock_time, timers>>
    /\ ReplayFrame

\* before the replay the same subscription is made on both clients
replay_subscribe_ticks(symbol, handler) ==
    /\ \A c \in Clients : ReplayBuilt(c) /\ caller[c].fed = 0
    /\ \A c \in Clients : symbol \in DOMAIN data_providers[c]
    /\ Cardinality({<<k, i>> \in Symbols \X (1..3) : i <= Len(tick_handlers["A"][k])})
            < MaxHandlers
    /\ tick_handlers' = [c \in Clients |-> AddHandler(tick_handlers[c], symbol, handler)]
    /\ UNCHANGED <<caller, data_providers, ticks, min_timestamp, max_timestamp,
                   clock_time, timers>>
    /\ ReplayFrame

\* before the replay the same time alert is set on the clocks of both
replay_set_time_alert(name, alert_time) ==
    /\ \A c \in Clients : ReplayBuilt(c) /\ caller[c].fed = 0
    /\ \A c \in Clients : \A t \in timers[c] : t.name # name
    /\ timers' = [c \in Clients |->
                    timers[c] \union {[name |-> name, trigger |-> alert_time]}]
    /\ UNCHANGED <<caller, tick_handlers, data_providers, ticks, min_timestamp,
                   max_timestamp, clock_time>>
    /\ ReplayFrame

\* process_tick of one client on the next tick of the merged stream
replay_process_tick(client) ==
    /\ ReplayBuilt(client)
    /\ caller[client].fed < Len(ticks[client])
    /\ LET tick == ticks[client][caller[client].fed + 1]
           clock == clock_of(client)
           handlers == tick_handlers[client][tick.symbol]
           dispatched == [i \in 1..Len(handlers) |->
                            [do |-> "tick_handler", handler |-> handlers[i], tick |-> tick]]
           pending == timers[clock]
       IN IF pending # {} /\ tick.timestamp < NextEventTime(pending)
          THEN /\ caller' = [caller EXCEPT ![client].fed = @ + 1,
                                ![client].trace = @ \o
                                    process_tick_steps(dispatched, <<>>, <<>>)]
               /\ UNCHANGED <<clock_time, timers>>
          ELSE /\ clock_time' = [clock_time EXCEPT ![clock] = tick.timestamp]
               /\ timers' = [timers EXCEPT ![clock] =
                                {x \in pending : x.trigger > tick.timestamp}]
               /\ caller' = [caller EXCEPT ![client].fed = @ + 1,
                                ![client].trace = @ \o process_tick_steps(dispatched,
                                    <<[do |-> "advance_time", to_time |-> tick.timestamp]>>,
                                    PendingEvents(pending, tick.timestamp))]
    /\ UNCHANGED <<tick_handlers, data_providers, ticks, min_timestamp, max_timestamp>>
    /\ ReplayFrame

InitReplay ==
    /\ tick_handlers = [c \in Clients |-> [s \in Symbols |-> <<>>]]
    /\ bar_handlers = [bt \in BarTypes |-> <<>>]
    /\ instrument_handlers = [s \in Symbols |-> <<>>]
    /\ bar_aggregators = [bt \in BarTypes |-> NoAggregator]
    /\ instruments = [s \in Symbols |-> NoInstrument]
    /\ cached_symbols = {}
    /\ cached_bar_types = {}
    /\ sub_topics = [k \in Kinds |-> {}]
    /\ sub_calls = [k \in Kinds |-> {}]
    /\ WorkersCreated
    /\ inflight = <<>>
    /\ deliv = NoDelivery
    /\ \E data \in ReplayContainers :
          caller = [c \in Clients |-> [op |-> "__init__", stage |-> "call", container |-> data]]
    /\ data_providers = [c \in Clients |-> <<>>]
    /\ ticks = [c \in Clients |-> <<>>]
    /\ min_timestamp = [c \in Clients |-> 0]
    /\ max_timestamp = [c \in Clients |-> 0]
    /\ clock_time = [c \in Clients |-> 0]
    /\ timers = [c \in Clients |-> {}]

NextReplay ==
    \/ \E client \in Clients : replay__init__(client)
    \/ \E symbol \in Symbols, handler \in Handlers : replay_subscribe_ticks(symbol, handler)
    \/ \E name \in TimerNames, alert_time \in Timestamps :
          replay_set_time_alert(name, alert_time)
    \/ \E client \in Clients : replay_process_tick(client)

SpecReplay == InitReplay /\ [][NextReplay]_vars

----------------------------------------------------------------------------
(* Further properties of the live client                                   *)

\* the invocations of a delivery that hand the delivered item to a handler
ItemInvocations(delivery) == SelectSeq(delivery.invoked, LAMBDA v : v.kind = delivery.kind)
TimesInvoked(delivery, h) ==
    Cardinality({i \in 1..Len(ItemInvocations(delivery)) :
                    ItemInvocations(delivery)[i].handler = h})

\* message i leaves the channel and is dispatched in this step
Delivered(i) ==
    /\ i \in 1..Len(inflight)
    /\ inflight' = SubSeq(inflight, 1, i - 1) \o SubSeq(inflight, i + 1, Len(inflight))
    /\ deliv'.kind = inflight[i].kind

ResetStatement(do) ==
    /\ caller.stage = "running" /\ caller.op = "reset"
    /\ caller' # caller
    /\ Head(caller.todo).do = do

----------------------------------------------------------------------------
(* The subscriptions of the backtest client                                *)

BacktestSubscriptionOps == {"subscribe_ticks", "subscribe_bars", "unsubscribe_ticks",
                            "unsubscribe_bars"}

NextSubscriptions ==
    \/ __init__
    \/ \E symbol \in Symbols \union {NoneSymbol},
          handler \in Handlers \union {NotCallable, NoneHandler} :
          \/ backtest_subscribe_ticks(symbol, handler)
          \/ backtest_unsubscribe_ticks(symbol, handler)
    \/ \E bar_type \in BarTypes, handler \in Handlers \union {NotCallable, NoneHandler} :
          \/ backtest_subscribe_bars(bar_type, handler)
          \/ backtest_unsubscribe_bars(bar_type, handler)
    \/ BacktestReturn

SpecSubscriptions == InitBacktest /\ [][NextSubscriptions]_vars

\* a subscription call of the backtest client has come back
SubscriptionDone == caller.op \in BacktestSubscriptionOps /\ caller.stage = "done"

\* the symbol the call was made for
SubscriptionSymbol ==
    IF caller.op \in {"subscribe_bars", "unsubscribe_bars"} THEN caller.key.symbol
    ELSE caller.key

\* C28 (as stated): subscribe_ticks, subscribe_bars, unsubscribe_ticks and
\* unsubscribe_bars of the backtest client raise ConditionFailed for every
\* handler that is not a callable, the absent handler None included, and
\* leave the registry as it was.
C28_NonCallableRejected ==
    (SubscriptionDone /\ caller.handler \notin Handlers) =>
        /\ caller.raised = "ConditionFailed"
        /\ registry = caller.pre.registry

----------------------------------------------------------------------------
(* The data provider of one instrument                                     *)

\* the bar tables a provider is built from: dictionaries keyed by any of the
\* bar structures
ProviderStructures == {"SECOND", "MINUTE", "HOUR"}
ProviderTables == {[present |-> TRUE, structures |-> S] : S \in SUBSET ProviderStructures}

\* bars_ask[structure] for the structure chosen on the bid side
ask_lookup_raises(structure, bars_ask) ==
    IF structure # "EMPTY" /\ structure \notin bars_ask.structures THEN "KeyError" ELSE "none"

\* DataProvider.__init__: the structure is chosen from the keys of bars_bid,
\* the bid and the ask table of that structure go to the tick builder, and
\* the ticks it builds are kept
DataProvider__init__ ==
    /\ caller.op = "DataProvider" /\ caller.stage = "call"
    /\ LET structure == Granularity(caller.bars_bid)
           raised == ask_lookup_raises(structure, caller.bars_ask)
       IN /\ caller' = [op |-> "DataProvider", stage |-> "done",
                        bars_bid |-> caller.bars_bid, bars_ask |-> caller.bars_ask,
                        built |-> caller.built, raised |-> raised,
                        bid_data |-> IF raised = "none" THEN structure ELSE "unbound",
                        ask_data |-> IF raised = "none" THEN structure ELSE "unbound"]
          /\ ticks' = IF raised = "none" THEN caller.built ELSE ticks
    /\ UNCHANGED <<registry, instruments, caches, workers, inflight, deliv, data_providers,
                   min_timestamp, max_timestamp, clock_time, timers>>

InitProvider ==
    /\ EmptyRegistry
    /\ instruments = [s \in Symbols |-> IF s = AUDUSD THEN [symbol |-> s] ELSE NoInstrument]
    /\ cached_symbols = {}
    /\ cached_bar_types = {}
    /\ sub_topics = [k \in Kinds |-> {}]
    /\ sub_calls = [k \in Kinds |-> {}]
    /\ WorkersCreated
    /\ inflight = <<>>
    /\ deliv = NoDelivery
    /\ \E bars_bid \in ProviderTables, bars_ask \in ProviderTables, built \in TickTables(AUDUSD) :
          caller = [op |-> "DataProvider", stage |-> "call", bars_bid |-> bars_bid,
                    bars_ask |-> bars_ask, built |-> built]
    /\ NoBacktest

NextProvider == DataProvider__init__

SpecProvider == InitProvider /\ [][NextProvider]_vars

\* C30 (as stated): the provider hands the tick builder the tables of the
\* second bars if the bid tables have them, else of the minute bars, else of
\* the hour bars, else empty tables, the same structure for bid and ask, and
\* this succeeds for every combination of structures in the bid and the ask
\* tables.
C30_GranularitySelected ==
    (caller.op = "DataProvider" /\ caller.stage = "done") =>
        LET bid == caller.bars_bid.structures
            expected == IF "SECOND" \in bid THEN "SECOND"
                        ELSE IF "MINUTE" \in bid THEN "MINUTE"
                        ELSE IF "HOUR" \in bid THEN "HOUR"
                        ELSE "EMPTY"
        IN /\ caller.raised = "none"
           /\ caller.bid_data = expected
           /\ caller.ask_data = expected

----------------------------------------------------------------------------
(* Further properties of the backtest client                               *)

\* the place of a tick in the concatenation of the providers' ticks, the
\* providers in the order of the instruments
PlaceInConcatenation(tick) ==
    LET first == IF AUDUSD \in DOMAIN data_providers THEN data_providers[AUDUSD] ELSE <<>>
        second == IF GBPUSD \in DOMAIN data_providers THEN data_providers[GBPUSD] ELSE <<>>
        all == first \o second
    IN CHOOSE k \in 1..Len(all) : all[k] = tick

\* C31: the sort of the merged tick stream is stable: two ticks of one
\* timestamp are in the order they have in the concatenation of the
\* providers' ticks.
C31_SortIsStable ==
    Constructed =>
        \A i, j \in 1..Len(ticks) :
            (i < j /\ ticks[i].timestamp = ticks[j].timestamp) =>
                PlaceInConcatenation(ticks[i]) < PlaceInConcatenation(ticks[j])

\* the merged stream holds two ticks of one timestamp
C31_Witness ==
    /\ Constructed
    /\ Len(ticks) = 2
    /\ ticks[1].timestamp = ticks[2].timestamp
    /\ ticks[1].symbol = AUDUSD /\ ticks[2].symbol = GBPUSD

----------------------------------------------------------------------------
(* Further properties of the subscriptions of the live client              *)

\* C32 (as stated): a topic is unsubscribed on the wire only when the last
\* handler of its key is being removed: while another handler is registered
\* for the key the topic stays subscribed and that handler goes on receiving.
C32_OtherHandlersKeepTopic ==
    [][\A k \in Kinds : \A t \in sub_topics[k] :
            t \notin sub_topics'[k] => Range(HandlersFor(k, t)) \subseteq {caller.handler}]_vars

\* the caller thread issues the wire unsubscribe of its call in this step
WireUnsubscribeIssued ==
    /\ caller.stage = "running"
    /\ Head(caller.todo).do = "unsubscribe"
    /\ caller' # caller

\* C33 (as stated): every wire unsubscribe is for a topic that was wire
\* subscribed before on the same channel with the same topic string; so
\* unsubscribe_bars of a tick-structured bar type issues no bar unsubscribe.
C33_UnsubscribeOnlySubscribed ==
    [][WireUnsubscribeIssued =>
            TopicOf(Head(caller.todo).kind, Head(caller.todo).key)
                \in sub_calls[Head(caller.todo).kind]]_vars

\* C35: the time of the clock never decreases from one call to the next, and
\* no step but process_tick changes it: not subscribe, unsubscribe, request,
\* connect or reset.
C35_ClockMonotonic ==
    [][/\ clock_time' >= clock_time
       /\ clock_time' # clock_time => (caller = Idle /\ caller'.op = "process_tick")]_vars

\* reset has come back with the clock at the time a tick had advanced it to
C35_Witness ==
    /\ caller.op = "reset" /\ caller.stage = "done"
    /\ clock_time = MaxTime

\* C36: no timer fires early: a timer callback invoked by process_tick has a
\* trigger time not later than the tick's timestamp, and when it is invoked
\* the clock has been advanced to the timestamp of the tick.
C36_NoTimerEarly ==
    (caller.op = "process_tick" /\ caller.stage = "done") =>
        \A j \in 1..Len(caller.trace) :
            caller.trace[j].do = "timer" =>
                /\ caller.trace[j].trigger <= caller.tick.timestamp
                /\ \E i \in 1..(j - 1) :
                      /\ caller.trace[i].do = "advance_time"
                      /\ caller.trace[i].to_time = caller.tick.timestamp
                /\ clock_time = caller.tick.timestamp

\* a tick has fired a timer whose trigger is earlier than the tick
C36_Witness ==
    /\ caller.op = "process_tick" /\ caller.stage = "done"
    /\ \E j \in 1..Len(caller.trace) :
          /\ caller.trace[j].do = "timer"
          /\ caller.trace[j].trigger < caller.tick.timestamp

----------------------------------------------------------------------------
(* Further properties of the replay                                        *)

\* C34 (as stated): with the merged stream fed in order, the events reach
\* the subscribers in the order of their times: a timer callback of trigger
\* time t is invoked before any tick handler is given a tick later than t.
C34_EventTimeOrder ==
    \A c \in Clients : ReplayBuilt(c) =>
        \A i, j \in 1..Len(caller[c].trace) :
            (/\ i < j
             /\ caller[c].trace[i].do = "tick_handler"
             /\ caller[c].trace[j].do = "timer")
                => caller[c].trace[i].tick.timestamp <= caller[c].trace[j].trigger

----------------------------------------------------------------------------
(* Further properties of the life cycle of the live client                 *)

\* C37 (as stated): every call of disconnect attempts the disconnect of each
\* of the six workers, also when the disconnect of an earlier worker raises.
C37_DisconnectAttemptsAll ==
    (caller.op = "disconnect" /\ caller.stage = "done") =>
        Range(caller.sent) = Workers

====
